---- MODULE Spec2Model ----
(***************************************************************************)
(* Model of lib/instrumentation.js: the light-my-request interceptor.      *)
(* patchedInject starts one SERVER span per call, runs the requestHook,    *)
(* delegates to the original inject inside the span's context and          *)
(* finalizes the span from the callback (wrapCallback) or from the settled *)
(* promise (wrapPromise) through onResponse / onError.                     *)
(*                                                                         *)
(* The tracer, the context manager, the propagator, the hooks' bodies, the *)
(* caller and the delegate (the original inject) are the environment: the  *)
(* span is modelled as a recorder of the calls made on it, the delegate as *)
(* a nondeterministic choice over what a callable can do.  Strings are     *)
(* sequences of characters, so that split, toUpperCase and parseInt are    *)
(* computed as the engine computes them.  _patch and _unpatch work on a    *)
(* heap of objects, so that the identity of what they return and the       *)
(* properties they write can be told apart.                                *)
(***************************************************************************)
EXTENDS Integers, Sequences, FiniteSets, TLC

VARIABLES
    requestHook,   \* instrumentation._requestHook : "none" | "ok" | "assigns"
                   \* | "throws"
    responseHook,  \* instrumentation._responseHook: "none" | "ok" | "throws"
    active,        \* context.active(): the context manager's current context
    calls,         \* one record per call of patchedInject, in call order
    moduleExports, \* the exports of light-my-request as the loader found them
    heap,          \* the objects and functions the loader and _patch hold
    installs,      \* one record per call of _patch / _unpatch, in call order
    jobs           \* the promise jobs waiting, oldest first, each the kind
                   \* of the job and the id of its call: "reaction" runs
                   \* the handler of promise.then on the settled promise of
                   \* the delegate, "thenable" calls then on the promise
                   \* the rejection handler returned, "adopt" settles the
                   \* caller's promise as that promise

vars ==
    <<requestHook, responseHook, active, calls, moduleExports, heap, installs,
      jobs>>

\* what the calls of the patched inject leave alone
installerVars == <<moduleExports, heap, installs>>

----------------------------------------------------------------------------
(* Bounds *)

\* calls of patchedInject in one behaviour (calls overlap: their completions
\* arrive in any interleaving)
MaxCalls == 1

\* times the delegate may invoke the callback it was given
MaxInvocations == 1

\* calls of _patch and _unpatch in one behaviour
MaxInstalls == 3

----------------------------------------------------------------------------
(* JavaScript values, as far as the code looks into them *)

Absent == "<absent>"

\* t: "undefined" | "null" | "object"; the other fields are the properties
\* the code reads: statusCode (0 = absent or falsy), name, constructor.name,
\* message.
JsVal(t, statusCode, name, ctor, message) ==
    [t |-> t, statusCode |-> statusCode, name |-> name, ctor |-> ctor,
     message |-> message]

Undefined == JsVal("undefined", 0, Absent, Absent, Absent)
Null == JsVal("null", 0, Absent, Absent, Absent)

\* a response object; statusCode 0 stands for "no (truthy) statusCode"
Response(statusCode) == JsVal("object", statusCode, Absent, "Response", Absent)

\* new Error(message) of a class whose name is `name`
ErrorOf(name, message) == JsVal("object", 0, name, name, message)

\* a thrown plain object { message } : no name, constructor Object
PlainError == JsVal("object", 0, Absent, "Object", "plain")

\* a thrown Object.create(null): no name, no constructor, no message
BareError == JsVal("object", 0, Absent, Absent, Absent)

\* what the engine throws on a property read of undefined / null
TypeError == ErrorOf("TypeError", "Cannot read properties")

Truthy(v) == v.t \in {"object", "promise"}

\* v.prop does not throw
HasProperties(v) == v.t = "object"

StatusCodes == {200, 302, 399, 400, 500}

Responses == {Response(s) : s \in StatusCodes \cup {0}}

\* the last two: an error whose name was set to '', and an instance of an
\* anonymous class, whose constructor's name is ''
Errors == {ErrorOf("Error", "boom"), ErrorOf("CustomError", "custom"),
           PlainError, BareError,
           JsVal("object", 0, "", "CustomError", "unnamed"),
           JsVal("object", 0, Absent, "", Absent)}

Nullish == {Undefined, Null}

\* what a delegate's promise may fulfil with
FulfilValues == Nullish \cup Responses

\* what a delegate's promise may reject with; Spec draws the named errors,
\* the object without name and constructor and the reasons that are no
\* object, SpecErrors all of them
RejectValues == Nullish \cup Errors

\* the (error, response) pairs a delegate may pass to the callback: neither,
\* a response, an error, both
CallbackArgs ==
    {<<Undefined, Undefined>>,
     <<Null, Response(200)>>, <<Null, Response(400)>>, <<Null, Response(0)>>,
     <<ErrorOf("Error", "boom"), Undefined>>,
     <<ErrorOf("CustomError", "custom"), Response(200)>>}

----------------------------------------------------------------------------
(* Strings and primitive values *)

\* a string is the sequence of its characters (UTF-16 code units): a
\* printable ASCII character, tab, line feed, form feed and carriage return
\* stand for themselves, any other character is written "uXXXX" after its
\* code unit, "u00DF" for U+00DF, and a character beyond U+FFFF is the two
\* code units of its surrogate pair, "uD801" "uDC28" for U+10428
Digits == <<"0", "1", "2", "3", "4", "5", "6", "7", "8", "9">>

\* the full case mapping of Unicode 17.0 to upper case, which has no
\* condition of language or context, for the characters of the Basic
\* Multilingual Plane: each line is a character and its upper case, which
\* is up to three characters, "" standing for no character
UpperCase == <<
    "a", "A", "", "",
    "b", "B", "", "",
    "c", "C", "", "",
    "d", "D", "", "",
    "e", "E", "", "",
    "f", "F", "", "",
    "g", "G", "", "",
    "h", "H", "", "",
    "i", "I", "", "",
    "j", "J", "", "",
    "k", "K", "", "",
    "l", "L", "", "",
    "m", "M", "", "",
    "n", "N", "", "",
    "o", "O", "", "",
    "p", "P", "", "",
    "q", "Q", "", "",
    "r", "R", "", "",
    "s", "S", "", "",
    "t", "T", "", "",
    "u", "U", "", "",
    "v", "V", "", "",
    "w", "W", "", "",
    "x", "X", "", "",
    "y", "Y", "", "",
    "z", "Z", "", "",
    "u00B5", "u039C", "", "",
    "u00DF", "S", "S", "",
    "u00E0", "u00C0", "", "",
    "u00E1", "u00C1", "", "",
    "u00E2", "u00C2", "", "",
    "u00E3", "u00C3", "", "",
    "u00E4", "u00C4", "", "",
    "u00E5", "u00C5", "", "",
    "u00E6", "u00C6", "", "",
    "u00E7", "u00C7", "", "",
    "u00E8", "u00C8", "", "",
    "u00E9", "u00C9", "", "",
    "u00EA", "u00CA", "", "",
    "u00EB", "u00CB", "", "",
    "u00EC", "u00CC", "", "",
    "u00ED", "u00CD", "", "",
    "u00EE", "u00CE", "", "",
    "u00EF", "u00CF", "", "",
    "u00F0", "u00D0", "", "",
    "u00F1", "u00D1", "", "",
    "u00F2", "u00D2", "", "",
    "u00F3", "u00D3", "", "",
    "u00F4", "u00D4", "", "",
    "u00F5", "u00D5", "", "",
    "u00F6", "u00D6", "", "",
    "u00F8", "u00D8", "", "",
    "u00F9", "u00D9", "", "",
    "u00FA", "u00DA", "", "",
    "u00FB", "u00DB", "", "",
    "u00FC", "u00DC", "", "",
    "u00FD", "u00DD", "", "",
    "u00FE", "u00DE", "", "",
    "u00FF", "u0178", "", "",
    "u0101", "u0100", "", "",
    "u0103", "u0102", "", "",
    "u0105", "u0104", "", "",
    "u0107", "u0106", "", "",
    "u0109", "u0108", "", "",
    "u010B", "u010A", "", "",
    "u010D", "u010C", "", "",
    "u010F", "u010E", "", "",
    "u0111", "u0110", "", "",
    "u0113", "u0112", "", "",
    "u0115", "u0114", "", "",
    "u0117", "u0116", "", "",
    "u0119", "u0118", "", "",
    "u011B", "u011A", "", "",
    "u011D", "u011C", "", "",
    "u011F", "u011E", "", "",
    "u0121", "u0120", "", "",
    "u0123", "u0122", "", "",
    "u0125", "u0124", "", "",
    "u0127", "u0126", "", "",
    "u0129", "u0128", "", "",
    "u012B", "u012A", "", "",
    "u012D", "u012C", "", "",
    "u012F", "u012E", "", "",
    "u0131", "I", "", "",
    "u0133", "u0132", "", "",
    "u0135", "u0134", "", "",
    "u0137", "u0136", "", "",
    "u013A", "u0139", "", "",
    "u013C", "u013B", "", "",
    "u013E", "u013D", "", "",
    "u0140", "u013F", "", "",
    "u0142", "u0141", "", "",
    "u0144", "u0143", "", "",
    "u0146", "u0145", "", "",
    "u0148", "u0147", "", "",
    "u0149", "u02BC", "N", "",
    "u014B", "u014A", "", "",
    "u014D", "u014C", "", "",
    "u014F", "u014E", "", "",
    "u0151", "u0150", "", "",
    "u0153", "u0152", "", "",
    "u0155", "u0154", "", "",
    "u0157", "u0156", "", "",
    "u0159", "u0158", "", "",
    "u015B", "u015A", "", "",
    "u015D", "u015C", "", "",
    "u015F", "u015E", "", "",
    "u0161", "u0160", "", "",
    "u0163", "u0162", "", "",
    "u0165", "u0164", "", "",
    "u0167", "u0166", "", "",
    "u0169", "u0168", "", "",
    "u016B", "u016A", "", "",
    "u016D", "u016C", "", "",
    "u016F", "u016E", "", "",
    "u0171", "u0170", "", "",
    "u0173", "u0172", "", "",
    "u0175", "u0174", "", "",
    "u0177", "u0176", "", "",
    "u017A", "u0179", "", "",
    "u017C", "u017B", "", "",
    "u017E", "u017D", "", "",
    "u017F", "S", "", "",
    "u0180", "u0243", "", "",
    "u0183", "u0182", "", "",
    "u0185", "u0184", "", "",
    "u0188", "u0187", "", "",
    "u018C", "u018B", "", "",
    "u0192", "u0191", "", "",
    "u0195", "u01F6", "", "",
    "u0199", "u0198", "", "",
    "u019A", "u023D", "", "",
    "u019B", "uA7DC", "", "",
    "u019E", "u0220", "", "",
    "u01A1", "u01A0", "", "",
    "u01A3", "u01A2", "", "",
    "u01A5", "u01A4", "", "",
    "u01A8", "u01A7", "", "",
    "u01AD", "u01AC", "", "",
    "u01B0", "u01AF", "", "",
    "u01B4", "u01B3", "", "",
    "u01B6", "u01B5", "", "",
    "u01B9", "u01B8", "", "",
    "u01BD", "u01BC", "", "",
    "u01BF", "u01F7", "", "",
    "u01C5", "u01C4", "", "",
    "u01C6", "u01C4", "", "",
    "u01C8", "u01C7", "", "",
    "u01C9", "u01C7", "", "",
    "u01CB", "u01CA", "", "",
    "u01CC", "u01CA", "", "",
    "u01CE", "u01CD", "", "",
    "u01D0", "u01CF", "", "",
    "u01D2", "u01D1", "", "",
    "u01D4", "u01D3", "", "",
    "u01D6", "u01D5", "", "",
    "u01D8", "u01D7", "", "",
    "u01DA", "u01D9", "", "",
    "u01DC", "u01DB", "", "",
    "u01DD", "u018E", "", "",
    "u01DF", "u01DE", "", "",
    "u01E1", "u01E0", "", "",
    "u01E3", "u01E2", "", "",
    "u01E5", "u01E4", "", "",
    "u01E7", "u01E6", "", "",
    "u01E9", "u01E8", "", "",
    "u01EB", "u01EA", "", "",
    "u01ED", "u01EC", "", "",
    "u01EF", "u01EE", "", "",
    "u01F0", "J", "u030C", "",
    "u01F2", "u01F1", "", "",
    "u01F3", "u01F1", "", "",
    "u01F5", "u01F4", "", "",
    "u01F9", "u01F8", "", "",
    "u01FB", "u01FA", "", "",
    "u01FD", "u01FC", "", "",
    "u01FF", "u01FE", "", "",
    "u0201", "u0200", "", "",
    "u0203", "u0202", "", "",
    "u0205", "u0204", "", "",
    "u0207", "u0206", "", "",
    "u0209", "u0208", "", "",
    "u020B", "u020A", "", "",
    "u020D", "u020C", "", "",
    "u020F", "u020E", "", "",
    "u0211", "u0210", "", "",
    "u0213", "u0212", "", "",
    "u0215", "u0214", "", "",
    "u0217", "u0216", "", "",
    "u0219", "u0218", "", "",
    "u021B", "u021A", "", "",
    "u021D", "u021C", "", "",
    "u021F", "u021E", "", "",
    "u0223", "u0222", "", "",
    "u0225", "u0224", "", "",
    "u0227", "u0226", "", "",
    "u0229", "u0228", "", "",
    "u022B", "u022A", "", "",
    "u022D", "u022C", "", "",
    "u022F", "u022E", "", "",
    "u0231", "u0230", "", "",
    "u0233", "u0232", "", "",
    "u023C", "u023B", "", "",
    "u023F", "u2C7E", "", "",
    "u0240", "u2C7F", "", "",
    "u0242", "u0241", "", "",
    "u0247", "u0246", "", "",
    "u0249", "u0248", "", "",
    "u024B", "u024A", "", "",
    "u024D", "u024C", "", "",
    "u024F", "u024E", "", "",
    "u0250", "u2C6F", "", "",
    "u0251", "u2C6D", "", "",
    "u0252", "u2C70", "", "",
    "u0253", "u0181", "", "",
    "u0254", "u0186", "", "",
    "u0256", "u0189", "", "",
    "u0257", "u018A", "", "",
    "u0259", "u018F", "", "",
    "u025B", "u0190", "", "",
    "u025C", "uA7AB", "", "",
    "u0260", "u0193", "", "",
    "u0261", "uA7AC", "", "",
    "u0263", "u0194", "", "",
    "u0264", "uA7CB", "", "",
    "u0265", "uA78D", "", "",
    "u0266", "uA7AA", "", "",
    "u0268", "u0197", "", "",
    "u0269", "u0196", "", "",
    "u026A", "uA7AE", "", "",
    "u026B", "u2C62", "", "",
    "u026C", "uA7AD", "", "",
    "u026F", "u019C", "", "",
    "u0271", "u2C6E", "", "",
    "u0272", "u019D", "", "",
    "u0275", "u019F", "", "",
    "u027D", "u2C64", "", "",
    "u0280", "u01A6", "", "",
    "u0282", "uA7C5", "", "",
    "u0283", "u01A9", "", "",
    "u0287", "uA7B1", "", "",
    "u0288", "u01AE", "", "",
    "u0289", "u0244", "", "",
    "u028A", "u01B1", "", "",
    "u028B", "u01B2", "", "",
    "u028C", "u0245", "", "",
    "u0292", "u01B7", "", "",
    "u029D", "uA7B2", "", "",
    "u029E", "uA7B0", "", "",
    "u0345", "u0399", "", "",
    "u0371", "u0370", "", "",
    "u0373", "u0372", "", "",
    "u0377", "u0376", "", "",
    "u037B", "u03FD", "", "",
    "u037C", "u03FE", "", "",
    "u037D", "u03FF", "", "",
    "u0390", "u0399", "u0308", "u0301",
    "u03AC", "u0386", "", "",
    "u03AD", "u0388", "", "",
    "u03AE", "u0389", "", "",
    "u03AF", "u038A", "", "",
    "u03B0", "u03A5", "u0308", "u0301",
    "u03B1", "u0391", "", "",
    "u03B2", "u0392", "", "",
    "u03B3", "u0393", "", "",
    "u03B4", "u0394", "", "",
    "u03B5", "u0395", "", "",
    "u03B6", "u0396", "", "",
    "u03B7", "u0397", "", "",
    "u03B8", "u0398", "", "",
    "u03B9", "u0399", "", "",
    "u03BA", "u039A", "", "",
    "u03BB", "u039B", "", "",
    "u03BC", "u039C", "", "",
    "u03BD", "u039D", "", "",
    "u03BE", "u039E", "", "",
    "u03BF", "u039F", "", "",
    "u03C0", "u03A0", "", "",
    "u03C1", "u03A1", "", "",
    "u03C2", "u03A3", "", "",
    "u03C3", "u03A3", "", "",
    "u03C4", "u03A4", "", "",
    "u03C5", "u03A5", "", "",
    "u03C6", "u03A6", "", "",
    "u03C7", "u03A7", "", "",
    "u03C8", "u03A8", "", "",
    "u03C9", "u03A9", "", "",
    "u03CA", "u03AA", "", "",
    "u03CB", "u03AB", "", "",
    "u03CC", "u038C", "", "",
    "u03CD", "u038E", "", "",
    "u03CE", "u038F", "", "",
    "u03D0", "u0392", "", "",
    "u03D1", "u0398", "", "",
    "u03D5", "u03A6", "", "",
    "u03D6", "u03A0", "", "",
    "u03D7", "u03CF", "", "",
    "u03D9", "u03D8", "", "",
    "u03DB", "u03DA", "", "",
    "u03DD", "u03DC", "", "",
    "u03DF", "u03DE", "", "",
    "u03E1", "u03E0", "", "",
    "u03E3", "u03E2", "", "",
    "u03E5", "u03E4", "", "",
    "u03E7", "u03E6", "", "",
    "u03E9", "u03E8", "", "",
    "u03EB", "u03EA", "", "",
    "u03ED", "u03EC", "", "",
    "u03EF", "u03EE", "", "",
    "u03F0", "u039A", "", "",
    "u03F1", "u03A1", "", "",
    "u03F2", "u03F9", "", "",
    "u03F3", "u037F", "", "",
    "u03F5", "u0395", "", "",
    "u03F8", "u03F7", "", "",
    "u03FB", "u03FA", "", "",
    "u0430", "u0410", "", "",
    "u0431", "u0411", "", "",
    "u0432", "u0412", "", "",
    "u0433", "u0413", "", "",
    "u0434", "u0414", "", "",
    "u0435", "u0415", "", "",
    "u0436", "u0416", "", "",
    "u0437", "u0417", "", "",
    "u0438", "u0418", "", "",
    "u0439", "u0419", "", "",
    "u043A", "u041A", "", "",
    "u043B", "u041B", "", "",
    "u043C", "u041C", "", "",
    "u043D", "u041D", "", "",
    "u043E", "u041E", "", "",
    "u043F", "u041F", "", "",
    "u0440", "u0420", "", "",
    "u0441", "u0421", "", "",
    "u0442", "u0422", "", "",
    "u0443", "u0423", "", "",
    "u0444", "u0424", "", "",
    "u0445", "u0425", "", "",
    "u0446", "u0426", "", "",
    "u0447", "u0427", "", "",
    "u0448", "u0428", "", "",
    "u0449", "u0429", "", "",
    "u044A", "u042A", "", "",
    "u044B", "u042B", "", "",
    "u044C", "u042C", "", "",
    "u044D", "u042D", "", "",
    "u044E", "u042E", "", "",
    "u044F", "u042F", "", "",
    "u0450", "u0400", "", "",
    "u0451", "u0401", "", "",
    "u0452", "u0402", "", "",
    "u0453", "u0403", "", "",
    "u0454", "u0404", "", "",
    "u0455", "u0405", "", "",
    "u0456", "u0406", "", "",
    "u0457", "u0407", "", "",
    "u0458", "u0408", "", "",
    "u0459", "u0409", "", "",
    "u045A", "u040A", "", "",
    "u045B", "u040B", "", "",
    "u045C", "u040C", "", "",
    "u045D", "u040D", "", "",
    "u045E", "u040E", "", "",
    "u045F", "u040F", "", "",
    "u0461", "u0460", "", "",
    "u0463", "u0462", "", "",
    "u0465", "u0464", "", "",
    "u0467", "u0466", "", "",
    "u0469", "u0468", "", "",
    "u046B", "u046A", "", "",
    "u046D", "u046C", "", "",
    "u046F", "u046E", "", "",
    "u0471", "u0470", "", "",
    "u0473", "u0472", "", "",
    "u0475", "u0474", "", "",
    "u0477", "u0476", "", "",
    "u0479", "u0478", "", "",
    "u047B", "u047A", "", "",
    "u047D", "u047C", "", "",
    "u047F", "u047E", "", "",
    "u0481", "u0480", "", "",
    "u048B", "u048A", "", "",
    "u048D", "u048C", "", "",
    "u048F", "u048E", "", "",
    "u0491", "u0490", "", "",
    "u0493", "u0492", "", "",
    "u0495", "u0494", "", "",
    "u0497", "u0496", "", "",
    "u0499", "u0498", "", "",
    "u049B", "u049A", "", "",
    "u049D", "u049C", "", "",
    "u049F", "u049E", "", "",
    "u04A1", "u04A0", "", "",
    "u04A3", "u04A2", "", "",
    "u04A5", "u04A4", "", "",
    "u04A7", "u04A6", "", "",
    "u04A9", "u04A8", "", "",
    "u04AB", "u04AA", "", "",
    "u04AD", "u04AC", "", "",
    "u04AF", "u04AE", "", "",
    "u04B1", "u04B0", "", "",
    "u04B3", "u04B2", "", "",
    "u04B5", "u04B4", "", "",
    "u04B7", "u04B6", "", "",
    "u04B9", "u04B8", "", "",
    "u04BB", "u04BA", "", "",
    "u04BD", "u04BC", "", "",
    "u04BF", "u04BE", "", "",
    "u04C2", "u04C1", "", "",
    "u04C4", "u04C3", "", "",
    "u04C6", "u04C5", "", "",
    "u04C8", "u04C7", "", "",
    "u04CA", "u04C9", "", "",
    "u04CC", "u04CB", "", "",
    "u04CE", "u04CD", "", "",
    "u04CF", "u04C0", "", "",
    "u04D1", "u04D0", "", "",
    "u04D3", "u04D2", "", "",
    "u04D5", "u04D4", "", "",
    "u04D7", "u04D6", "", "",
    "u04D9", "u04D8", "", "",
    "u04DB", "u04DA", "", "",
    "u04DD", "u04DC", "", "",
    "u04DF", "u04DE", "", "",
    "u04E1", "u04E0", "", "",
    "u04E3", "u04E2", "", "",
    "u04E5", "u04E4", "", "",
    "u04E7", "u04E6", "", "",
    "u04E9", "u04E8", "", "",
    "u04EB", "u04EA", "", "",
    "u04ED", "u04EC", "", "",
    "u04EF", "u04EE", "", "",
    "u04F1", "u04F0", "", "",
    "u04F3", "u04F2", "", "",
    "u04F5", "u04F4", "", "",
    "u04F7", "u04F6", "", "",
    "u04F9", "u04F8", "", "",
    "u04FB", "u04FA", "", "",
    "u04FD", "u04FC", "", "",
    "u04FF", "u04FE", "", "",
    "u0501", "u0500", "", "",
    "u0503", "u0502", "", "",
    "u0505", "u0504", "", "",
    "u0507", "u0506", "", "",
    "u0509", "u0508", "", "",
    "u050B", "u050A", "", "",
    "u050D", "u050C", "", "",
    "u050F", "u050E", "", "",
    "u0511", "u0510", "", "",
    "u0513", "u0512", "", "",
    "u0515", "u0514", "", "",
    "u0517", "u0516", "", "",
    "u0519", "u0518", "", "",
    "u051B", "u051A", "", "",
    "u051D", "u051C", "", "",
    "u051F", "u051E", "", "",
    "u0521", "u0520", "", "",
    "u0523", "u0522", "", "",
    "u0525", "u0524", "", "",
    "u0527", "u0526", "", "",
    "u0529", "u0528", "", "",
    "u052B", "u052A", "", "",
    "u052D", "u052C", "", "",
    "u052F", "u052E", "", "",
    "u0561", "u0531", "", "",
    "u0562", "u0532", "", "",
    "u0563", "u0533", "", "",
    "u0564", "u0534", "", "",
    "u0565", "u0535", "", "",
    "u0566", "u0536", "", "",
    "u0567", "u0537", "", "",
    "u0568", "u0538", "", "",
    "u0569", "u0539", "", "",
    "u056A", "u053A", "", "",
    "u056B", "u053B", "", "",
    "u056C", "u053C", "", "",
    "u056D", "u053D", "", "",
    "u056E", "u053E", "", "",
    "u056F", "u053F", "", "",
    "u0570", "u0540", "", "",
    "u0571", "u0541", "", "",
    "u0572", "u0542", "", "",
    "u0573", "u0543", "", "",
    "u0574", "u0544", "", "",
    "u0575", "u0545", "", "",
    "u0576", "u0546", "", "",
    "u0577", "u0547", "", "",
    "u0578", "u0548", "", "",
    "u0579", "u0549", "", "",
    "u057A", "u054A", "", "",
    "u057B", "u054B", "", "",
    "u057C", "u054C", "", "",
    "u057D", "u054D", "", "",
    "u057E", "u054E", "", "",
    "u057F", "u054F", "", "",
    "u0580", "u0550", "", "",
    "u0581", "u0551", "", "",
    "u0582", "u0552", "", "",
    "u0583", "u0553", "", "",
    "u0584", "u0554", "", "",
    "u0585", "u0555", "", "",
    "u0586", "u0556", "", "",
    "u0587", "u0535", "u0552", "",
    "u10D0", "u1C90", "", "",
    "u10D1", "u1C91", "", "",
    "u10D2", "u1C92", "", "",
    "u10D3", "u1C93", "", "",
    "u10D4", "u1C94", "", "",
    "u10D5", "u1C95", "", "",
    "u10D6", "u1C96", "", "",
    "u10D7", "u1C97", "", "",
    "u10D8", "u1C98", "", "",
    "u10D9", "u1C99", "", "",
    "u10DA", "u1C9A", "", "",
    "u10DB", "u1C9B", "", "",
    "u10DC", "u1C9C", "", "",
    "u10DD", "u1C9D", "", "",
    "u10DE", "u1C9E", "", "",
    "u10DF", "u1C9F", "", "",
    "u10E0", "u1CA0", "", "",
    "u10E1", "u1CA1", "", "",
    "u10E2", "u1CA2", "", "",
    "u10E3", "u1CA3", "", "",
    "u10E4", "u1CA4", "", "",
    "u10E5", "u1CA5", "", "",
    "u10E6", "u1CA6", "", "",
    "u10E7", "u1CA7", "", "",
    "u10E8", "u1CA8", "", "",
    "u10E9", "u1CA9", "", "",
    "u10EA", "u1CAA", "", "",
    "u10EB", "u1CAB", "", "",
    "u10EC", "u1CAC", "", "",
    "u10ED", "u1CAD", "", "",
    "u10EE", "u1CAE", "", "",
    "u10EF", "u1CAF", "", "",
    "u10F0", "u1CB0", "", "",
    "u10F1", "u1CB1", "", "",
    "u10F2", "u1CB2", "", "",
    "u10F3", "u1CB3", "", "",
    "u10F4", "u1CB4", "", "",
    "u10F5", "u1CB5", "", "",
    "u10F6", "u1CB6", "", "",
    "u10F7", "u1CB7", "", "",
    "u10F8", "u1CB8", "", "",
    "u10F9", "u1CB9", "", "",
    "u10FA", "u1CBA", "", "",
    "u10FD", "u1CBD", "", "",
    "u10FE", "u1CBE", "", "",
    "u10FF", "u1CBF", "", "",
    "u13F8", "u13F0", "", "",
    "u13F9", "u13F1", "", "",
    "u13FA", "u13F2", "", "",
    "u13FB", "u13F3", "", "",
    "u13FC", "u13F4", "", "",
    "u13FD", "u13F5", "", "",
    "u1C80", "u0412", "", "",
    "u1C81", "u0414", "", "",
    "u1C82", "u041E", "", "",
    "u1C83", "u0421", "", "",
    "u1C84", "u0422", "", "",
    "u1C85", "u0422", "", "",
    "u1C86", "u042A", "", "",
    "u1C87", "u0462", "", "",
    "u1C88", "uA64A", "", "",
    "u1C8A", "u1C89", "", "",
    "u1D79", "uA77D", "", "",
    "u1D7D", "u2C63", "", "",
    "u1D8E", "uA7C6", "", "",
    "u1E01", "u1E00", "", "",
    "u1E03", "u1E02", "", "",
    "u1E05", "u1E04", "", "",
    "u1E07", "u1E06", "", "",
    "u1E09", "u1E08", "", "",
    "u1E0B", "u1E0A", "", "",
    "u1E0D", "u1E0C", "", "",
    "u1E0F", "u1E0E", "", "",
    "u1E11", "u1E10", "", "",
    "u1E13", "u1E12", "", "",
    "u1E15", "u1E14", "", "",
    "u1E17", "u1E16", "", "",
    "u1E19", "u1E18", "", "",
    "u1E1B", "u1E1A", "", "",
    "u1E1D", "u1E1C", "", "",
    "u1E1F", "u1E1E", "", "",
    "u1E21", "u1E20", "", "",
    "u1E23", "u1E22", "", "",
    "u1E25", "u1E24", "", "",
    "u1E27", "u1E26", "", "",
    "u1E29", "u1E28", "", "",
    "u1E2B", "u1E2A", "", "",
    "u1E2D", "u1E2C", "", "",
    "u1E2F", "u1E2E", "", "",
    "u1E31", "u1E30", "", "",
    "u1E33", "u1E32", "", "",
    "u1E35", "u1E34", "", "",
    "u1E37", "u1E36", "", "",
    "u1E39", "u1E38", "", "",
    "u1E3B", "u1E3A", "", "",
    "u1E3D", "u1E3C", "", "",
    "u1E3F", "u1E3E", "", "",
    "u1E41", "u1E40", "", "",
    "u1E43", "u1E42", "", "",
    "u1E45", "u1E44", "", "",
    "u1E47", "u1E46", "", "",
    "u1E49", "u1E48", "", "",
    "u1E4B", "u1E4A", "", "",
    "u1E4D", "u1E4C", "", "",
    "u1E4F", "u1E4E", "", "",
    "u1E51", "u1E50", "", "",
    "u1E53", "u1E52", "", "",
    "u1E55", "u1E54", "", "",
    "u1E57", "u1E56", "", "",
    "u1E59", "u1E58", "", "",
    "u1E5B", "u1E5A", "", "",
    "u1E5D", "u1E5C", "", "",
    "u1E5F", "u1E5E", "", "",
    "u1E61", "u1E60", "", "",
    "u1E63", "u1E62", "", "",
    "u1E65", "u1E64", "", "",
    "u1E67", "u1E66", "", "",
    "u1E69", "u1E68", "", "",
    "u1E6B", "u1E6A", "", "",
    "u1E6D", "u1E6C", "", "",
    "u1E6F", "u1E6E", "", "",
    "u1E71", "u1E70", "", "",
    "u1E73", "u1E72", "", "",
    "u1E75", "u1E74", "", "",
    "u1E77", "u1E76", "", "",
    "u1E79", "u1E78", "", "",
    "u1E7B", "u1E7A", "", "",
    "u1E7D", "u1E7C", "", "",
    "u1E7F", "u1E7E", "", "",
    "u1E81", "u1E80", "", "",
    "u1E83", "u1E82", "", "",
    "u1E85", "u1E84", "", "",
    "u1E87", "u1E86", "", "",
    "u1E89", "u1E88", "", "",
    "u1E8B", "u1E8A", "", "",
    "u1E8D", "u1E8C", "", "",
    "u1E8F", "u1E8E", "", "",
    "u1E91", "u1E90", "", "",
    "u1E93", "u1E92", "", "",
    "u1E95", "u1E94", "", "",
    "u1E96", "H", "u0331", "",
    "u1E97", "T", "u0308", "",
    "u1E98", "W", "u030A", "",
    "u1E99", "Y", "u030A", "",
    "u1E9A", "A", "u02BE", "",
    "u1E9B", "u1E60", "", "",
    "u1EA1", "u1EA0", "", "",
    "u1EA3", "u1EA2", "", "",
    "u1EA5", "u1EA4", "", "",
    "u1EA7", "u1EA6", "", "",
    "u1EA9", "u1EA8", "", "",
    "u1EAB", "u1EAA", "", "",
    "u1EAD", "u1EAC", "", "",
    "u1EAF", "u1EAE", "", "",
    "u1EB1", "u1EB0", "", "",
    "u1EB3", "u1EB2", "", "",
    "u1EB5", "u1EB4", "", "",
    "u1EB7", "u1EB6", "", "",
    "u1EB9", "u1EB8", "", "",
    "u1EBB", "u1EBA", "", "",
    "u1EBD", "u1EBC", "", "",
    "u1EBF", "u1EBE", "", "",
    "u1EC1", "u1EC0", "", "",
    "u1EC3", "u1EC2", "", "",
    "u1EC5", "u1EC4", "", "",
    "u1EC7", "u1EC6", "", "",
    "u1EC9", "u1EC8", "", "",
    "u1ECB", "u1ECA", "", "",
    "u1ECD", "u1ECC", "", "",
    "u1ECF", "u1ECE", "", "",
    "u1ED1", "u1ED0", "", "",
    "u1ED3", "u1ED2", "", "",
    "u1ED5", "u1ED4", "", "",
    "u1ED7", "u1ED6", "", "",
    "u1ED9", "u1ED8", "", "",
    "u1EDB", "u1EDA", "", "",
    "u1EDD", "u1EDC", "", "",
    "u1EDF", "u1EDE", "", "",
    "u1EE1", "u1EE0", "", "",
    "u1EE3", "u1EE2", "", "",
    "u1EE5", "u1EE4", "", "",
    "u1EE7", "u1EE6", "", "",
    "u1EE9", "u1EE8", "", "",
    "u1EEB", "u1EEA", "", "",
    "u1EED", "u1EEC", "", "",
    "u1EEF", "u1EEE", "", "",
    "u1EF1", "u1EF0", "", "",
    "u1EF3", "u1EF2", "", "",
    "u1EF5", "u1EF4", "", "",
    "u1EF7", "u1EF6", "", "",
    "u1EF9", "u1EF8", "", "",
    "u1EFB", "u1EFA", "", "",
    "u1EFD", "u1EFC", "", "",
    "u1EFF", "u1EFE", "", "",
    "u1F00", "u1F08", "", "",
    "u1F01", "u1F09", "", "",
    "u1F02", "u1F0A", "", "",
    "u1F03", "u1F0B", "", "",
    "u1F04", "u1F0C", "", "",
    "u1F05", "u1F0D", "", "",
    "u1F06", "u1F0E", "", "",
    "u1F07", "u1F0F", "", "",
    "u1F10", "u1F18", "", "",
    "u1F11", "u1F19", "", "",
    "u1F12", "u1F1A", "", "",
    "u1F13", "u1F1B", "", "",
    "u1F14", "u1F1C", "", "",
    "u1F15", "u1F1D", "", "",
    "u1F20", "u1F28", "", "",
    "u1F21", "u1F29", "", "",
    "u1F22", "u1F2A", "", "",
    "u1F23", "u1F2B", "", "",
    "u1F24", "u1F2C", "", "",
    "u1F25", "u1F2D", "", "",
    "u1F26", "u1F2E", "", "",
    "u1F27", "u1F2F", "", "",
    "u1F30", "u1F38", "", "",
    "u1F31", "u1F39", "", "",
    "u1F32", "u1F3A", "", "",
    "u1F33", "u1F3B", "", "",
    "u1F34", "u1F3C", "", "",
    "u1F35", "u1F3D", "", "",
    "u1F36", "u1F3E", "", "",
    "u1F37", "u1F3F", "", "",
    "u1F40", "u1F48", "", "",
    "u1F41", "u1F49", "", "",
    "u1F42", "u1F4A", "", "",
    "u1F43", "u1F4B", "", "",
    "u1F44", "u1F4C", "", "",
    "u1F45", "u1F4D", "", "",
    "u1F50", "u03A5", "u0313", "",
    "u1F51", "u1F59", "", "",
    "u1F52", "u03A5", "u0313", "u0300",
    "u1F53", "u1F5B", "", "",
    "u1F54", "u03A5", "u0313", "u0301",
    "u1F55", "u1F5D", "", "",
    "u1F56", "u03A5", "u0313", "u0342",
    "u1F57", "u1F5F", "", "",
    "u1F60", "u1F68", "", "",
    "u1F61", "u1F69", "", "",
    "u1F62", "u1F6A", "", "",
    "u1F63", "u1F6B", "", "",
    "u1F64", "u1F6C", "", "",
    "u1F65", "u1F6D", "", "",
    "u1F66", "u1F6E", "", "",
    "u1F67", "u1F6F", "", "",
    "u1F70", "u1FBA", "", "",
    "u1F71", "u1FBB", "", "",
    "u1F72", "u1FC8", "", "",
    "u1F73", "u1FC9", "", "",
    "u1F74", "u1FCA", "", "",
    "u1F75", "u1FCB", "", "",
    "u1F76", "u1FDA", "", "",
    "u1F77", "u1FDB", "", "",
    "u1F78", "u1FF8", "", "",
    "u1F79", "u1FF9", "", "",
    "u1F7A", "u1FEA", "", "",
    "u1F7B", "u1FEB", "", "",
    "u1F7C", "u1FFA", "", "",
    "u1F7D", "u1FFB", "", "",
    "u1F80", "u1F08", "u0399", "",
    "u1F81", "u1F09", "u0399", "",
    "u1F82", "u1F0A", "u0399", "",
    "u1F83", "u1F0B", "u0399", "",
    "u1F84", "u1F0C", "u0399", "",
    "u1F85", "u1F0D", "u0399", "",
    "u1F86", "u1F0E", "u0399", "",
    "u1F87", "u1F0F", "u0399", "",
    "u1F88", "u1F08", "u0399", "",
    "u1F89", "u1F09", "u0399", "",
    "u1F8A", "u1F0A", "u0399", "",
    "u1F8B", "u1F0B", "u0399", "",
    "u1F8C", "u1F0C", "u0399", "",
    "u1F8D", "u1F0D", "u0399", "",
    "u1F8E", "u1F0E", "u0399", "",
    "u1F8F", "u1F0F", "u0399", "",
    "u1F90", "u1F28", "u0399", "",
    "u1F91", "u1F29", "u0399", "",
    "u1F92", "u1F2A", "u0399", "",
    "u1F93", "u1F2B", "u0399", "",
    "u1F94", "u1F2C", "u0399", "",
    "u1F95", "u1F2D", "u0399", "",
    "u1F96", "u1F2E", "u0399", "",
    "u1F97", "u1F2F", "u0399", "",
    "u1F98", "u1F28", "u0399", "",
    "u1F99", "u1F29", "u0399", "",
    "u1F9A", "u1F2A", "u0399", "",
    "u1F9B", "u1F2B", "u0399", "",
    "u1F9C", "u1F2C", "u0399", "",
    "u1F9D", "u1F2D", "u0399", "",
    "u1F9E", "u1F2E", "u0399", "",
    "u1F9F", "u1F2F", "u0399", "",
    "u1FA0", "u1F68", "u0399", "",
    "u1FA1", "u1F69", "u0399", "",
    "u1FA2", "u1F6A", "u0399", "",
    "u1FA3", "u1F6B", "u0399", "",
    "u1FA4", "u1F6C", "u0399", "",
    "u1FA5", "u1F6D", "u0399", "",
    "u1FA6", "u1F6E", "u0399", "",
    "u1FA7", "u1F6F", "u0399", "",
    "u1FA8", "u1F68", "u0399", "",
    "u1FA9", "u1F69", "u0399", "",
    "u1FAA", "u1F6A", "u0399", "",
    "u1FAB", "u1F6B", "u0399", "",
    "u1FAC", "u1F6C", "u0399", "",
    "u1FAD", "u1F6D", "u0399", "",
    "u1FAE", "u1F6E", "u0399", "",
    "u1FAF", "u1F6F", "u0399", "",
    "u1FB0", "u1FB8", "", "",
    "u1FB1", "u1FB9", "", "",
    "u1FB2", "u1FBA", "u0399", "",
    "u1FB3", "u0391", "u0399", "",
    "u1FB4", "u0386", "u0399", "",
    "u1FB6", "u0391", "u0342", "",
    "u1FB7", "u0391", "u0342", "u0399",
    "u1FBC", "u0391", "u0399", "",
    "u1FBE", "u0399", "", "",
    "u1FC2", "u1FCA", "u0399", "",
    "u1FC3", "u0397", "u0399", "",
    "u1FC4", "u0389", "u0399", "",
    "u1FC6", "u0397", "u0342", "",
    "u1FC7", "u0397", "u0342", "u0399",
    "u1FCC", "u0397", "u0399", "",
    "u1FD0", "u1FD8", "", "",
    "u1FD1", "u1FD9", "", "",
    "u1FD2", "u0399", "u0308", "u0300",
    "u1FD3", "u0399", "u0308", "u0301",
    "u1FD6", "u0399", "u0342", "",
    "u1FD7", "u0399", "u0308", "u0342",
    "u1FE0", "u1FE8", "", "",
    "u1FE1", "u1FE9", "", "",
    "u1FE2", "u03A5", "u0308", "u0300",
    "u1FE3", "u03A5", "u0308", "u0301",
    "u1FE4", "u03A1", "u0313", "",
    "u1FE5", "u1FEC", "", "",
    "u1FE6", "u03A5", "u0342", "",
    "u1FE7", "u03A5", "u0308", "u0342",
    "u1FF2", "u1FFA", "u0399", "",
    "u1FF3", "u03A9", "u0399", "",
    "u1FF4", "u038F", "u0399", "",
    "u1FF6", "u03A9", "u0342", "",
    "u1FF7", "u03A9", "u0342", "u0399",
    "u1FFC", "u03A9", "u0399", "",
    "u214E", "u2132", "", "",
    "u2170", "u2160", "", "",
    "u2171", "u2161", "", "",
    "u2172", "u2162", "", "",
    "u2173", "u2163", "", "",
    "u2174", "u2164", "", "",
    "u2175", "u2165", "", "",
    "u2176", "u2166", "", "",
    "u2177", "u2167", "", "",
    "u2178", "u2168", "", "",
    "u2179", "u2169", "", "",
    "u217A", "u216A", "", "",
    "u217B", "u216B", "", "",
    "u217C", "u216C", "", "",
    "u217D", "u216D", "", "",
    "u217E", "u216E", "", "",
    "u217F", "u216F", "", "",
    "u2184", "u2183", "", "",
    "u24D0", "u24B6", "", "",
    "u24D1", "u24B7", "", "",
    "u24D2", "u24B8", "", "",
    "u24D3", "u24B9", "", "",
    "u24D4", "u24BA", "", "",
    "u24D5", "u24BB", "", "",
    "u24D6", "u24BC", "", "",
    "u24D7", "u24BD", "", "",
    "u24D8", "u24BE", "", "",
    "u24D9", "u24BF", "", "",
    "u24DA", "u24C0", "", "",
    "u24DB", "u24C1", "", "",
    "u24DC", "u24C2", "", "",
    "u24DD", "u24C3", "", "",
    "u24DE", "u24C4", "", "",
    "u24DF", "u24C5", "", "",
    "u24E0", "u24C6", "", "",
    "u24E1", "u24C7", "", "",
    "u24E2", "u24C8", "", "",
    "u24E3", "u24C9", "", "",
    "u24E4", "u24CA", "", "",
    "u24E5", "u24CB", "", "",
    "u24E6", "u24CC", "", "",
    "u24E7", "u24CD", "", "",
    "u24E8", "u24CE", "", "",
    "u24E9", "u24CF", "", "",
    "u2C30", "u2C00", "", "",
    "u2C31", "u2C01", "", "",
    "u2C32", "u2C02", "", "",
    "u2C33", "u2C03", "", "",
    "u2C34", "u2C04", "", "",
    "u2C35", "u2C05", "", "",
    "u2C36", "u2C06", "", "",
    "u2C37", "u2C07", "", "",
    "u2C38", "u2C08", "", "",
    "u2C39", "u2C09", "", "",
    "u2C3A", "u2C0A", "", "",
    "u2C3B", "u2C0B", "", "",
    "u2C3C", "u2C0C", "", "",
    "u2C3D", "u2C0D", "", "",
    "u2C3E", "u2C0E", "", "",
    "u2C3F", "u2C0F", "", "",
    "u2C40", "u2C10", "", "",
    "u2C41", "u2C11", "", "",
    "u2C42", "u2C12", "", "",
    "u2C43", "u2C13", "", "",
    "u2C44", "u2C14", "", "",
    "u2C45", "u2C15", "", "",
    "u2C46", "u2C16", "", "",
    "u2C47", "u2C17", "", "",
    "u2C48", "u2C18", "", "",
    "u2C49", "u2C19", "", "",
    "u2C4A", "u2C1A", "", "",
    "u2C4B", "u2C1B", "", "",
    "u2C4C", "u2C1C", "", "",
    "u2C4D", "u2C1D", "", "",
    "u2C4E", "u2C1E", "", "",
    "u2C4F", "u2C1F", "", "",
    "u2C50", "u2C20", "", "",
    "u2C51", "u2C21", "", "",
    "u2C52", "u2C22", "", "",
    "u2C53", "u2C23", "", "",
    "u2C54", "u2C24", "", "",
    "u2C55", "u2C25", "", "",
    "u2C56", "u2C26", "", "",
    "u2C57", "u2C27", "", "",
    "u2C58", "u2C28", "", "",
    "u2C59", "u2C29", "", "",
    "u2C5A", "u2C2A", "", "",
    "u2C5B", "u2C2B", "", "",
    "u2C5C", "u2C2C", "", "",
    "u2C5D", "u2C2D", "", "",
    "u2C5E", "u2C2E", "", "",
    "u2C5F", "u2C2F", "", "",
    "u2C61", "u2C60", "", "",
    "u2C65", "u023A", "", "",
    "u2C66", "u023E", "", "",
    "u2C68", "u2C67", "", "",
    "u2C6A", "u2C69", "", "",
    "u2C6C", "u2C6B", "", "",
    "u2C73", "u2C72", "", "",
    "u2C76", "u2C75", "", "",
    "u2C81", "u2C80", "", "",
    "u2C83", "u2C82", "", "",
    "u2C85", "u2C84", "", "",
    "u2C87", "u2C86", "", "",
    "u2C89", "u2C88", "", "",
    "u2C8B", "u2C8A", "", "",
    "u2C8D", "u2C8C", "", "",
    "u2C8F", "u2C8E", "", "",
    "u2C91", "u2C90", "", "",
    "u2C93", "u2C92", "", "",
    "u2C95", "u2C94", "", "",
    "u2C97", "u2C96", "", "",
    "u2C99", "u2C98", "", "",
    "u2C9B", "u2C9A", "", "",
    "u2C9D", "u2C9C", "", "",
    "u2C9F", "u2C9E", "", "",
    "u2CA1", "u2CA0", "", "",
    "u2CA3", "u2CA2", "", "",
    "u2CA5", "u2CA4", "", "",
    "u2CA7", "u2CA6", "", "",
    "u2CA9", "u2CA8", "", "",
    "u2CAB", "u2CAA", "", "",
    "u2CAD", "u2CAC", "", "",
    "u2CAF", "u2CAE", "", "",
    "u2CB1", "u2CB0", "", "",
    "u2CB3", "u2CB2", "", "",
    "u2CB5", "u2CB4", "", "",
    "u2CB7", "u2CB6", "", "",
    "u2CB9", "u2CB8", "", "",
    "u2CBB", "u2CBA", "", "",
    "u2CBD", "u2CBC", "", "",
    "u2CBF", "u2CBE", "", "",
    "u2CC1", "u2CC0", "", "",
    "u2CC3", "u2CC2", "", "",
    "u2CC5", "u2CC4", "", "",
    "u2CC7", "u2CC6", "", "",
    "u2CC9", "u2CC8", "", "",
    "u2CCB", "u2CCA", "", "",
    "u2CCD", "u2CCC", "", "",
    "u2CCF", "u2CCE", "", "",
    "u2CD1", "u2CD0", "", "",
    "u2CD3", "u2CD2", "", "",
    "u2CD5", "u2CD4", "", "",
    "u2CD7", "u2CD6", "", "",
    "u2CD9", "u2CD8", "", "",
    "u2CDB", "u2CDA", "", "",
    "u2CDD", "u2CDC", "", "",
    "u2CDF", "u2CDE", "", "",
    "u2CE1", "u2CE0", "", "",
    "u2CE3", "u2CE2", "", "",
    "u2CEC", "u2CEB", "", "",
    "u2CEE", "u2CED", "", "",
    "u2CF3", "u2CF2", "", "",
    "u2D00", "u10A0", "", "",
    "u2D01", "u10A1", "", "",
    "u2D02", "u10A2", "", "",
    "u2D03", "u10A3", "", "",
    "u2D04", "u10A4", "", "",
    "u2D05", "u10A5", "", "",
    "u2D06", "u10A6", "", "",
    "u2D07", "u10A7", "", "",
    "u2D08", "u10A8", "", "",
    "u2D09", "u10A9", "", "",
    "u2D0A", "u10AA", "", "",
    "u2D0B", "u10AB", "", "",
    "u2D0C", "u10AC", "", "",
    "u2D0D", "u10AD", "", "",
    "u2D0E", "u10AE", "", "",
    "u2D0F", "u10AF", "", "",
    "u2D10", "u10B0", "", "",
    "u2D11", "u10B1", "", "",
    "u2D12", "u10B2", "", "",
    "u2D13", "u10B3", "", "",
    "u2D14", "u10B4", "", "",
    "u2D15", "u10B5", "", "",
    "u2D16", "u10B6", "", "",
    "u2D17", "u10B7", "", "",
    "u2D18", "u10B8", "", "",
    "u2D19", "u10B9", "", "",
    "u2D1A", "u10BA", "", "",
    "u2D1B", "u10BB", "", "",
    "u2D1C", "u10BC", "", "",
    "u2D1D", "u10BD", "", "",
    "u2D1E", "u10BE", "", "",
    "u2D1F", "u10BF", "", "",
    "u2D20", "u10C0", "", "",
    "u2D21", "u10C1", "", "",
    "u2D22", "u10C2", "", "",
    "u2D23", "u10C3", "", "",
    "u2D24", "u10C4", "", "",
    "u2D25", "u10C5", "", "",
    "u2D27", "u10C7", "", "",
    "u2D2D", "u10CD", "", "",
    "uA641", "uA640", "", "",
    "uA643", "uA642", "", "",
    "uA645", "uA644", "", "",
    "uA647", "uA646", "", "",
    "uA649", "uA648", "", "",
    "uA64B", "uA64A", "", "",
    "uA64D", "uA64C", "", "",
    "uA64F", "uA64E", "", "",
    "uA651", "uA650", "", "",
    "uA653", "uA652", "", "",
    "uA655", "uA654", "", "",
    "uA657", "uA656", "", "",
    "uA659", "uA658", "", "",
    "uA65B", "uA65A", "", "",
    "uA65D", "uA65C", "", "",
    "uA65F", "uA65E", "", "",
    "uA661", "uA660", "", "",
    "uA663", "uA662", "", "",
    "uA665", "uA664", "", "",
    "uA667", "uA666", "", "",
    "uA669", "uA668", "", "",
    "uA66B", "uA66A", "", "",
    "uA66D", "uA66C", "", "",
    "uA681", "uA680", "", "",
    "uA683", "uA682", "", "",
    "uA685", "uA684", "", "",
    "uA687", "uA686", "", "",
    "uA689", "uA688", "", "",
    "uA68B", "uA68A", "", "",
    "uA68D", "uA68C", "", "",
    "uA68F", "uA68E", "", "",
    "uA691", "uA690", "", "",
    "uA693", "uA692", "", "",
    "uA695", "uA694", "", "",
    "uA697", "uA696", "", "",
    "uA699", "uA698", "", "",
    "uA69B", "uA69A", "", "",
    "uA723", "uA722", "", "",
    "uA725", "uA724", "", "",
    "uA727", "uA726", "", "",
    "uA729", "uA728", "", "",
    "uA72B", "uA72A", "", "",
    "uA72D", "uA72C", "", "",
    "uA72F", "uA72E", "", "",
    "uA733", "uA732", "", "",
    "uA735", "uA734", "", "",
    "uA737", "uA736", "", "",
    "uA739", "uA738", "", "",
    "uA73B", "uA73A", "", "",
    "uA73D", "uA73C", "", "",
    "uA73F", "uA73E", "", "",
    "uA741", "uA740", "", "",
    "uA743", "uA742", "", "",
    "uA745", "uA744", "", "",
    "uA747", "uA746", "", "",
    "uA749", "uA748", "", "",
    "uA74B", "uA74A", "", "",
    "uA74D", "uA74C", "", "",
    "uA74F", "uA74E", "", "",
    "uA751", "uA750", "", "",
    "uA753", "uA752", "", "",
    "uA755", "uA754", "", "",
    "uA757", "uA756", "", "",
    "uA759", "uA758", "", "",
    "uA75B", "uA75A", "", "",
    "uA75D", "uA75C", "", "",
    "uA75F", "uA75E", "", "",
    "uA761", "uA760", "", "",
    "uA763", "uA762", "", "",
    "uA765", "uA764", "", "",
    "uA767", "uA766", "", "",
    "uA769", "uA768", "", "",
    "uA76B", "uA76A", "", "",
    "uA76D", "uA76C", "", "",
    "uA76F", "uA76E", "", "",
    "uA77A", "uA779", "", "",
    "uA77C", "uA77B", "", "",
    "uA77F", "uA77E", "", "",
    "uA781", "uA780", "", "",
    "uA783", "uA782", "", "",
    "uA785", "uA784", "", "",
    "uA787", "uA786", "", "",
    "uA78C", "uA78B", "", "",
    "uA791", "uA790", "", "",
    "uA793", "uA792", "", "",
    "uA794", "uA7C4", "", "",
    "uA797", "uA796", "", "",
    "uA799", "uA798", "", "",
    "uA79B", "uA79A", "", "",
    "uA79D", "uA79C", "", "",
    "uA79F", "uA79E", "", "",
    "uA7A1", "uA7A0", "", "",
    "uA7A3", "uA7A2", "", "",
    "uA7A5", "uA7A4", "", "",
    "uA7A7", "uA7A6", "", "",
    "uA7A9", "uA7A8", "", "",
    "uA7B5", "uA7B4", "", "",
    "uA7B7", "uA7B6", "", "",
    "uA7B9", "uA7B8", "", "",
    "uA7BB", "uA7BA", "", "",
    "uA7BD", "uA7BC", "", "",
    "uA7BF", "uA7BE", "", "",
    "uA7C1", "uA7C0", "", "",
    "uA7C3", "uA7C2", "", "",
    "uA7C8", "uA7C7", "", "",
    "uA7CA", "uA7C9", "", "",
    "uA7CD", "uA7CC", "", "",
    "uA7CF", "uA7CE", "", "",
    "uA7D1", "uA7D0", "", "",
    "uA7D3", "uA7D2", "", "",
    "uA7D5", "uA7D4", "", "",
    "uA7D7", "uA7D6", "", "",
    "uA7D9", "uA7D8", "", "",
    "uA7DB", "uA7DA", "", "",
    "uA7F6", "uA7F5", "", "",
    "uAB53", "uA7B3", "", "",
    "uAB70", "u13A0", "", "",
    "uAB71", "u13A1", "", "",
    "uAB72", "u13A2", "", "",
    "uAB73", "u13A3", "", "",
    "uAB74", "u13A4", "", "",
    "uAB75", "u13A5", "", "",
    "uAB76", "u13A6", "", "",
    "uAB77", "u13A7", "", "",
    "uAB78", "u13A8", "", "",
    "uAB79", "u13A9", "", "",
    "uAB7A", "u13AA", "", "",
    "uAB7B", "u13AB", "", "",
    "uAB7C", "u13AC", "", "",
    "uAB7D", "u13AD", "", "",
    "uAB7E", "u13AE", "", "",
    "uAB7F", "u13AF", "", "",
    "uAB80", "u13B0", "", "",
    "uAB81", "u13B1", "", "",
    "uAB82", "u13B2", "", "",
    "uAB83", "u13B3", "", "",
    "uAB84", "u13B4", "", "",
    "uAB85", "u13B5", "", "",
    "uAB86", "u13B6", "", "",
    "uAB87", "u13B7", "", "",
    "uAB88", "u13B8", "", "",
    "uAB89", "u13B9", "", "",
    "uAB8A", "u13BA", "", "",
    "uAB8B", "u13BB", "", "",
    "uAB8C", "u13BC", "", "",
    "uAB8D", "u13BD", "", "",
    "uAB8E", "u13BE", "", "",
    "uAB8F", "u13BF", "", "",
    "uAB90", "u13C0", "", "",
    "uAB91", "u13C1", "", "",
    "uAB92", "u13C2", "", "",
    "uAB93", "u13C3", "", "",
    "uAB94", "u13C4", "", "",
    "uAB95", "u13C5", "", "",
    "uAB96", "u13C6", "", "",
    "uAB97", "u13C7", "", "",
    "uAB98", "u13C8", "", "",
    "uAB99", "u13C9", "", "",
    "uAB9A", "u13CA", "", "",
    "uAB9B", "u13CB", "", "",
    "uAB9C", "u13CC", "", "",
    "uAB9D", "u13CD", "", "",
    "uAB9E", "u13CE", "", "",
    "uAB9F", "u13CF", "", "",
    "uABA0", "u13D0", "", "",
    "uABA1", "u13D1", "", "",
    "uABA2", "u13D2", "", "",
    "uABA3", "u13D3", "", "",
    "uABA4", "u13D4", "", "",
    "uABA5", "u13D5", "", "",
    "uABA6", "u13D6", "", "",
    "uABA7", "u13D7", "", "",
    "uABA8", "u13D8", "", "",
    "uABA9", "u13D9", "", "",
    "uABAA", "u13DA", "", "",
    "uABAB", "u13DB", "", "",
    "uABAC", "u13DC", "", "",
    "uABAD", "u13DD", "", "",
    "uABAE", "u13DE", "", "",
    "uABAF", "u13DF", "", "",
    "uABB0", "u13E0", "", "",
    "uABB1", "u13E1", "", "",
    "uABB2", "u13E2", "", "",
    "uABB3", "u13E3", "", "",
    "uABB4", "u13E4", "", "",
    "uABB5", "u13E5", "", "",
    "uABB6", "u13E6", "", "",
    "uABB7", "u13E7", "", "",
    "uABB8", "u13E8", "", "",
    "uABB9", "u13E9", "", "",
    "uABBA", "u13EA", "", "",
    "uABBB", "u13EB", "", "",
    "uABBC", "u13EC", "", "",
    "uABBD", "u13ED", "", "",
    "uABBE", "u13EE", "", "",
    "uABBF", "u13EF", "", "",
    "uFB00", "F", "F", "",
    "uFB01", "F", "I", "",
    "uFB02", "F", "L", "",
    "uFB03", "F", "F", "I",
    "uFB04", "F", "F", "L",
    "uFB05", "S", "T", "",
    "uFB06", "S", "T", "",
    "uFB13", "u0544", "u0546", "",
    "uFB14", "u0544", "u0535", "",
    "uFB15", "u0544", "u053B", "",
    "uFB16", "u054E", "u0546", "",
    "uFB17", "u0544", "u053D", "",
    "uFF41", "uFF21", "", "",
    "uFF42", "uFF22", "", "",
    "uFF43", "uFF23", "", "",
    "uFF44", "uFF24", "", "",
    "uFF45", "uFF25", "", "",
    "uFF46", "uFF26", "", "",
    "uFF47", "uFF27", "", "",
    "uFF48", "uFF28", "", "",
    "uFF49", "uFF29", "", "",
    "uFF4A", "uFF2A", "", "",
    "uFF4B", "uFF2B", "", "",
    "uFF4C", "uFF2C", "", "",
    "uFF4D", "uFF2D", "", "",
    "uFF4E", "uFF2E", "", "",
    "uFF4F", "uFF2F", "", "",
    "uFF50", "uFF30", "", "",
    "uFF51", "uFF31", "", "",
    "uFF52", "uFF32", "", "",
    "uFF53", "uFF33", "", "",
    "uFF54", "uFF34", "", "",
    "uFF55", "uFF35", "", "",
    "uFF56", "uFF36", "", "",
    "uFF57", "uFF37", "", "",
    "uFF58", "uFF38", "", "",
    "uFF59", "uFF39", "", "",
    "uFF5A", "uFF3A", "", "" >>

\* the same mapping for the characters beyond U+FFFF: each line is the two
\* code units of a character's surrogate pair and the two of its upper case
UpperCasePairs == <<
    "uD801", "uDC28", "uD801", "uDC00",
    "uD801", "uDC29", "uD801", "uDC01",
    "uD801", "uDC2A", "uD801", "uDC02",
    "uD801", "uDC2B", "uD801", "uDC03",
    "uD801", "uDC2C", "uD801", "uDC04",
    "uD801", "uDC2D", "uD801", "uDC05",
    "uD801", "uDC2E", "uD801", "uDC06",
    "uD801", "uDC2F", "uD801", "uDC07",
    "uD801", "uDC30", "uD801", "uDC08",
    "uD801", "uDC31", "uD801", "uDC09",
    "uD801", "uDC32", "uD801", "uDC0A",
    "uD801", "uDC33", "uD801", "uDC0B",
    "uD801", "uDC34", "uD801", "uDC0C",
    "uD801", "uDC35", "uD801", "uDC0D",
    "uD801", "uDC36", "uD801", "uDC0E",
    "uD801", "uDC37", "uD801", "uDC0F",
    "uD801", "uDC38", "uD801", "uDC10",
    "uD801", "uDC39", "uD801", "uDC11",
    "uD801", "uDC3A", "uD801", "uDC12",
    "uD801", "uDC3B", "uD801", "uDC13",
    "uD801", "uDC3C", "uD801", "uDC14",
    "uD801", "uDC3D", "uD801", "uDC15",
    "uD801", "uDC3E", "uD801", "uDC16",
    "uD801", "uDC3F", "uD801", "uDC17",
    "uD801", "uDC40", "uD801", "uDC18",
    "uD801", "uDC41", "uD801", "uDC19",
    "uD801", "uDC42", "uD801", "uDC1A",
    "uD801", "uDC43", "uD801", "uDC1B",
    "uD801", "uDC44", "uD801", "uDC1C",
    "uD801", "uDC45", "uD801", "uDC1D",
    "uD801", "uDC46", "uD801", "uDC1E",
    "uD801", "uDC47", "uD801", "uDC1F",
    "uD801", "uDC48", "uD801", "uDC20",
    "uD801", "uDC49", "uD801", "uDC21",
    "uD801", "uDC4A", "uD801", "uDC22",
    "uD801", "uDC4B", "uD801", "uDC23",
    "uD801", "uDC4C", "uD801", "uDC24",
    "uD801", "uDC4D", "uD801", "uDC25",
    "uD801", "uDC4E", "uD801", "uDC26",
    "uD801", "uDC4F", "uD801", "uDC27",
    "uD801", "uDCD8", "uD801", "uDCB0",
    "uD801", "uDCD9", "uD801", "uDCB1",
    "uD801", "uDCDA", "uD801", "uDCB2",
    "uD801", "uDCDB", "uD801", "uDCB3",
    "uD801", "uDCDC", "uD801", "uDCB4",
    "uD801", "uDCDD", "uD801", "uDCB5",
    "uD801", "uDCDE", "uD801", "uDCB6",
    "uD801", "uDCDF", "uD801", "uDCB7",
    "uD801", "uDCE0", "uD801", "uDCB8",
    "uD801", "uDCE1", "uD801", "uDCB9",
    "uD801", "uDCE2", "uD801", "uDCBA",
    "uD801", "uDCE3", "uD801", "uDCBB",
    "uD801", "uDCE4", "uD801", "uDCBC",
    "uD801", "uDCE5", "uD801", "uDCBD",
    "uD801", "uDCE6", "uD801", "uDCBE",
    "uD801", "uDCE7", "uD801", "uDCBF",
    "uD801", "uDCE8", "uD801", "uDCC0",
    "uD801", "uDCE9", "uD801", "uDCC1",
    "uD801", "uDCEA", "uD801", "uDCC2",
    "uD801", "uDCEB", "uD801", "uDCC3",
    "uD801", "uDCEC", "uD801", "uDCC4",
    "uD801", "uDCED", "uD801", "uDCC5",
    "uD801", "uDCEE", "uD801", "uDCC6",
    "uD801", "uDCEF", "uD801", "uDCC7",
    "uD801", "uDCF0", "uD801", "uDCC8",
    "uD801", "uDCF1", "uD801", "uDCC9",
    "uD801", "uDCF2", "uD801", "uDCCA",
    "uD801", "uDCF3", "uD801", "uDCCB",
    "uD801", "uDCF4", "uD801", "uDCCC",
    "uD801", "uDCF5", "uD801", "uDCCD",
    "uD801", "uDCF6", "uD801", "uDCCE",
    "uD801", "uDCF7", "uD801", "uDCCF",
    "uD801", "uDCF8", "uD801", "uDCD0",
    "uD801", "uDCF9", "uD801", "uDCD1",
    "uD801", "uDCFA", "uD801", "uDCD2",
    "uD801", "uDCFB", "uD801", "uDCD3",
    "uD801", "uDD97", "uD801", "uDD70",
    "uD801", "uDD98", "uD801", "uDD71",
    "uD801", "uDD99", "uD801", "uDD72",
    "uD801", "uDD9A", "uD801", "uDD73",
    "uD801", "uDD9B", "uD801", "uDD74",
    "uD801", "uDD9C", "uD801", "uDD75",
    "uD801", "uDD9D", "uD801", "uDD76",
    "uD801", "uDD9E", "uD801", "uDD77",
    "uD801", "uDD9F", "uD801", "uDD78",
    "uD801", "uDDA0", "uD801", "uDD79",
    "uD801", "uDDA1", "uD801", "uDD7A",
    "uD801", "uDDA3", "uD801", "uDD7C",
    "uD801", "uDDA4", "uD801", "uDD7D",
    "uD801", "uDDA5", "uD801", "uDD7E",
    "uD801", "uDDA6", "uD801", "uDD7F",
    "uD801", "uDDA7", "uD801", "uDD80",
    "uD801", "uDDA8", "uD801", "uDD81",
    "uD801", "uDDA9", "uD801", "uDD82",
    "uD801", "uDDAA", "uD801", "uDD83",
    "uD801", "uDDAB", "uD801", "uDD84",
    "uD801", "uDDAC", "uD801", "uDD85",
    "uD801", "uDDAD", "uD801", "uDD86",
    "uD801", "uDDAE", "uD801", "uDD87",
    "uD801", "uDDAF", "uD801", "uDD88",
    "uD801", "uDDB0", "uD801", "uDD89",
    "uD801", "uDDB1", "uD801", "uDD8A",
    "uD801", "uDDB3", "uD801", "uDD8C",
    "uD801", "uDDB4", "uD801", "uDD8D",
    "uD801", "uDDB5", "uD801", "uDD8E",
    "uD801", "uDDB6", "uD801", "uDD8F",
    "uD801", "uDDB7", "uD801", "uDD90",
    "uD801", "uDDB8", "uD801", "uDD91",
    "uD801", "uDDB9", "uD801", "uDD92",
    "uD801", "uDDBB", "uD801", "uDD94",
    "uD801", "uDDBC", "uD801", "uDD95",
    "uD803", "uDCC0", "uD803", "uDC80",
    "uD803", "uDCC1", "uD803", "uDC81",
    "uD803", "uDCC2", "uD803", "uDC82",
    "uD803", "uDCC3", "uD803", "uDC83",
    "uD803", "uDCC4", "uD803", "uDC84",
    "uD803", "uDCC5", "uD803", "uDC85",
    "uD803", "uDCC6", "uD803", "uDC86",
    "uD803", "uDCC7", "uD803", "uDC87",
    "uD803", "uDCC8", "uD803", "uDC88",
    "uD803", "uDCC9", "uD803", "uDC89",
    "uD803", "uDCCA", "uD803", "uDC8A",
    "uD803", "uDCCB", "uD803", "uDC8B",
    "uD803", "uDCCC", "uD803", "uDC8C",
    "uD803", "uDCCD", "uD803", "uDC8D",
    "uD803", "uDCCE", "uD803", "uDC8E",
    "uD803", "uDCCF", "uD803", "uDC8F",
    "uD803", "uDCD0", "uD803", "uDC90",
    "uD803", "uDCD1", "uD803", "uDC91",
    "uD803", "uDCD2", "uD803", "uDC92",
    "uD803", "uDCD3", "uD803", "uDC93",
    "uD803", "uDCD4", "uD803", "uDC94",
    "uD803", "uDCD5", "uD803", "uDC95",
    "uD803", "uDCD6", "uD803", "uDC96",
    "uD803", "uDCD7", "uD803", "uDC97",
    "uD803", "uDCD8", "uD803", "uDC98",
    "uD803", "uDCD9", "uD803", "uDC99",
    "uD803", "uDCDA", "uD803", "uDC9A",
    "uD803", "uDCDB", "uD803", "uDC9B",
    "uD803", "uDCDC", "uD803", "uDC9C",
    "uD803", "uDCDD", "uD803", "uDC9D",
    "uD803", "uDCDE", "uD803", "uDC9E",
    "uD803", "uDCDF", "uD803", "uDC9F",
    "uD803", "uDCE0", "uD803", "uDCA0",
    "uD803", "uDCE1", "uD803", "uDCA1",
    "uD803", "uDCE2", "uD803", "uDCA2",
    "uD803", "uDCE3", "uD803", "uDCA3",
    "uD803", "uDCE4", "uD803", "uDCA4",
    "uD803", "uDCE5", "uD803", "uDCA5",
    "uD803", "uDCE6", "uD803", "uDCA6",
    "uD803", "uDCE7", "uD803", "uDCA7",
    "uD803", "uDCE8", "uD803", "uDCA8",
    "uD803", "uDCE9", "uD803", "uDCA9",
    "uD803", "uDCEA", "uD803", "uDCAA",
    "uD803", "uDCEB", "uD803", "uDCAB",
    "uD803", "uDCEC", "uD803", "uDCAC",
    "uD803", "uDCED", "uD803", "uDCAD",
    "uD803", "uDCEE", "uD803", "uDCAE",
    "uD803", "uDCEF", "uD803", "uDCAF",
    "uD803", "uDCF0", "uD803", "uDCB0",
    "uD803", "uDCF1", "uD803", "uDCB1",
    "uD803", "uDCF2", "uD803", "uDCB2",
    "uD803", "uDD70", "uD803", "uDD50",
    "uD803", "uDD71", "uD803", "uDD51",
    "uD803", "uDD72", "uD803", "uDD52",
    "uD803", "uDD73", "uD803", "uDD53",
    "uD803", "uDD74", "uD803", "uDD54",
    "uD803", "uDD75", "uD803", "uDD55",
    "uD803", "uDD76", "uD803", "uDD56",
    "uD803", "uDD77", "uD803", "uDD57",
    "uD803", "uDD78", "uD803", "uDD58",
    "uD803", "uDD79", "uD803", "uDD59",
    "uD803", "uDD7A", "uD803", "uDD5A",
    "uD803", "uDD7B", "uD803", "uDD5B",
    "uD803", "uDD7C", "uD803", "uDD5C",
    "uD803", "uDD7D", "uD803", "uDD5D",
    "uD803", "uDD7E", "uD803", "uDD5E",
    "uD803", "uDD7F", "uD803", "uDD5F",
    "uD803", "uDD80", "uD803", "uDD60",
    "uD803", "uDD81", "uD803", "uDD61",
    "uD803", "uDD82", "uD803", "uDD62",
    "uD803", "uDD83", "uD803", "uDD63",
    "uD803", "uDD84", "uD803", "uDD64",
    "uD803", "uDD85", "uD803", "uDD65",
    "uD806", "uDCC0", "uD806", "uDCA0",
    "uD806", "uDCC1", "uD806", "uDCA1",
    "uD806", "uDCC2", "uD806", "uDCA2",
    "uD806", "uDCC3", "uD806", "uDCA3",
    "uD806", "uDCC4", "uD806", "uDCA4",
    "uD806", "uDCC5", "uD806", "uDCA5",
    "uD806", "uDCC6", "uD806", "uDCA6",
    "uD806", "uDCC7", "uD806", "uDCA7",
    "uD806", "uDCC8", "uD806", "uDCA8",
    "uD806", "uDCC9", "uD806", "uDCA9",
    "uD806", "uDCCA", "uD806", "uDCAA",
    "uD806", "uDCCB", "uD806", "uDCAB",
    "uD806", "uDCCC", "uD806", "uDCAC",
    "uD806", "uDCCD", "uD806", "uDCAD",
    "uD806", "uDCCE", "uD806", "uDCAE",
    "uD806", "uDCCF", "uD806", "uDCAF",
    "uD806", "uDCD0", "uD806", "uDCB0",
    "uD806", "uDCD1", "uD806", "uDCB1",
    "uD806", "uDCD2", "uD806", "uDCB2",
    "uD806", "uDCD3", "uD806", "uDCB3",
    "uD806", "uDCD4", "uD806", "uDCB4",
    "uD806", "uDCD5", "uD806", "uDCB5",
    "uD806", "uDCD6", "uD806", "uDCB6",
    "uD806", "uDCD7", "uD806", "uDCB7",
    "uD806", "uDCD8", "uD806", "uDCB8",
    "uD806", "uDCD9", "uD806", "uDCB9",
    "uD806", "uDCDA", "uD806", "uDCBA",
    "uD806", "uDCDB", "uD806", "uDCBB",
    "uD806", "uDCDC", "uD806", "uDCBC",
    "uD806", "uDCDD", "uD806", "uDCBD",
    "uD806", "uDCDE", "uD806", "uDCBE",
    "uD806", "uDCDF", "uD806", "uDCBF",
    "uD81B", "uDE60", "uD81B", "uDE40",
    "uD81B", "uDE61", "uD81B", "uDE41",
    "uD81B", "uDE62", "uD81B", "uDE42",
    "uD81B", "uDE63", "uD81B", "uDE43",
    "uD81B", "uDE64", "uD81B", "uDE44",
    "uD81B", "uDE65", "uD81B", "uDE45",
    "uD81B", "uDE66", "uD81B", "uDE46",
    "uD81B", "uDE67", "uD81B", "uDE47",
    "uD81B", "uDE68", "uD81B", "uDE48",
    "uD81B", "uDE69", "uD81B", "uDE49",
    "uD81B", "uDE6A", "uD81B", "uDE4A",
    "uD81B", "uDE6B", "uD81B", "uDE4B",
    "uD81B", "uDE6C", "uD81B", "uDE4C",
    "uD81B", "uDE6D", "uD81B", "uDE4D",
    "uD81B", "uDE6E", "uD81B", "uDE4E",
    "uD81B", "uDE6F", "uD81B", "uDE4F",
    "uD81B", "uDE70", "uD81B", "uDE50",
    "uD81B", "uDE71", "uD81B", "uDE51",
    "uD81B", "uDE72", "uD81B", "uDE52",
    "uD81B", "uDE73", "uD81B", "uDE53",
    "uD81B", "uDE74", "uD81B", "uDE54",
    "uD81B", "uDE75", "uD81B", "uDE55",
    "uD81B", "uDE76", "uD81B", "uDE56",
    "uD81B", "uDE77", "uD81B", "uDE57",
    "uD81B", "uDE78", "uD81B", "uDE58",
    "uD81B", "uDE79", "uD81B", "uDE59",
    "uD81B", "uDE7A", "uD81B", "uDE5A",
    "uD81B", "uDE7B", "uD81B", "uDE5B",
    "uD81B", "uDE7C", "uD81B", "uDE5C",
    "uD81B", "uDE7D", "uD81B", "uDE5D",
    "uD81B", "uDE7E", "uD81B", "uDE5E",
    "uD81B", "uDE7F", "uD81B", "uDE5F",
    "uD81B", "uDEBB", "uD81B", "uDEA0",
    "uD81B", "uDEBC", "uD81B", "uDEA1",
    "uD81B", "uDEBD", "uD81B", "uDEA2",
    "uD81B", "uDEBE", "uD81B", "uDEA3",
    "uD81B", "uDEBF", "uD81B", "uDEA4",
    "uD81B", "uDEC0", "uD81B", "uDEA5",
    "uD81B", "uDEC1", "uD81B", "uDEA6",
    "uD81B", "uDEC2", "uD81B", "uDEA7",
    "uD81B", "uDEC3", "uD81B", "uDEA8",
    "uD81B", "uDEC4", "uD81B", "uDEA9",
    "uD81B", "uDEC5", "uD81B", "uDEAA",
    "uD81B", "uDEC6", "uD81B", "uDEAB",
    "uD81B", "uDEC7", "uD81B", "uDEAC",
    "uD81B", "uDEC8", "uD81B", "uDEAD",
    "uD81B", "uDEC9", "uD81B", "uDEAE",
    "uD81B", "uDECA", "uD81B", "uDEAF",
    "uD81B", "uDECB", "uD81B", "uDEB0",
    "uD81B", "uDECC", "uD81B", "uDEB1",
    "uD81B", "uDECD", "uD81B", "uDEB2",
    "uD81B", "uDECE", "uD81B", "uDEB3",
    "uD81B", "uDECF", "uD81B", "uDEB4",
    "uD81B", "uDED0", "uD81B", "uDEB5",
    "uD81B", "uDED1", "uD81B", "uDEB6",
    "uD81B", "uDED2", "uD81B", "uDEB7",
    "uD81B", "uDED3", "uD81B", "uDEB8",
    "uD83A", "uDD22", "uD83A", "uDD00",
    "uD83A", "uDD23", "uD83A", "uDD01",
    "uD83A", "uDD24", "uD83A", "uDD02",
    "uD83A", "uDD25", "uD83A", "uDD03",
    "uD83A", "uDD26", "uD83A", "uDD04",
    "uD83A", "uDD27", "uD83A", "uDD05",
    "uD83A", "uDD28", "uD83A", "uDD06",
    "uD83A", "uDD29", "uD83A", "uDD07",
    "uD83A", "uDD2A", "uD83A", "uDD08",
    "uD83A", "uDD2B", "uD83A", "uDD09",
    "uD83A", "uDD2C", "uD83A", "uDD0A",
    "uD83A", "uDD2D", "uD83A", "uDD0B",
    "uD83A", "uDD2E", "uD83A", "uDD0C",
    "uD83A", "uDD2F", "uD83A", "uDD0D",
    "uD83A", "uDD30", "uD83A", "uDD0E",
    "uD83A", "uDD31", "uD83A", "uDD0F",
    "uD83A", "uDD32", "uD83A", "uDD10",
    "uD83A", "uDD33", "uD83A", "uDD11",
    "uD83A", "uDD34", "uD83A", "uDD12",
    "uD83A", "uDD35", "uD83A", "uDD13",
    "uD83A", "uDD36", "uD83A", "uDD14",
    "uD83A", "uDD37", "uD83A", "uDD15",
    "uD83A", "uDD38", "uD83A", "uDD16",
    "uD83A", "uDD39", "uD83A", "uDD17",
    "uD83A", "uDD3A", "uD83A", "uDD18",
    "uD83A", "uDD3B", "uD83A", "uDD19",
    "uD83A", "uDD3C", "uD83A", "uDD1A",
    "uD83A", "uDD3D", "uD83A", "uDD1B",
    "uD83A", "uDD3E", "uD83A", "uDD1C",
    "uD83A", "uDD3F", "uD83A", "uDD1D",
    "uD83A", "uDD40", "uD83A", "uDD1E",
    "uD83A", "uDD41", "uD83A", "uDD1F",
    "uD83A", "uDD42", "uD83A", "uDD20",
    "uD83A", "uDD43", "uD83A", "uDD21" >>

\* the characters that have an upper case in the two tables: single the
\* characters of the Basic Multilingual Plane, by their code unit, pair the
\* characters beyond U+FFFF, by the two code units of their surrogate pair
Cased ==
    [single |-> {UpperCase[4 * i + 1] : i \in 0..(Len(UpperCase) \div 4 - 1)},
     pair |-> {<<UpperCasePairs[4 * i + 1], UpperCasePairs[4 * i + 2]>> :
                   i \in 0..(Len(UpperCasePairs) \div 4 - 1)}]

\* the upper case of one character of the Basic Multilingual Plane. A
\* character that is not listed, such as a surrogate that is no half of a
\* pair, is itself
Upper(ch) ==
    LET line == CHOOSE i \in 0..(Len(UpperCase) \div 4 - 1) :
                    UpperCase[4 * i + 1] = ch
    IN  IF ch \notin Cased.single THEN <<ch>>
        ELSE SelectSeq(SubSeq(UpperCase, 4 * line + 2, 4 * line + 4),
                       LAMBDA up : up # "")

\* the upper case of one character beyond U+FFFF, by the first and the
\* second code unit of its surrogate pair
UpperPair(high, low) ==
    LET line == CHOOSE i \in 0..(Len(UpperCasePairs) \div 4 - 1) :
                    /\ UpperCasePairs[4 * i + 1] = high
                    /\ UpperCasePairs[4 * i + 2] = low
    IN  IF <<high, low>> \notin Cased.pair THEN <<high, low>>
        ELSE SubSeq(UpperCasePairs, 4 * line + 3, 4 * line + 4)

RECURSIVE ToUpperCase(_)
\* String.prototype.toUpperCase(): the upper case of the code points of the
\* string, one after the other, a surrogate pair being one code point. The
\* string is taken as two halves, cut where no pair that has an upper case
\* is cut in two, which keeps the nesting of the evaluation shallow
ToUpperCase(s) ==
    LET Paired(i) == UpperPair(s[i], s[i + 1]) # <<s[i], s[i + 1]>>
        half == Len(s) \div 2
        cut == IF Paired(half) THEN half + 1 ELSE half
    IN  CASE s = <<>> -> <<>>
          [] Len(s) = 1 -> Upper(s[1])
          [] Len(s) = 2 /\ Paired(1) -> UpperPair(s[1], s[2])
          [] OTHER -> ToUpperCase(SubSeq(s, 1, cut))
                          \o ToUpperCase(SubSeq(s, cut + 1, Len(s)))

\* fault: the string is split at the last separator
SplitLast(s, separator) ==
    IF \A i \in 1..Len(s) : s[i] # separator THEN <<s>>
    ELSE LET k == CHOOSE i \in 1..Len(s) :
                      /\ s[i] = separator
                      /\ \A j \in (i + 1)..Len(s) : s[j] # separator
         IN  <<SubSeq(s, 1, k - 1), SubSeq(s, k + 1, Len(s))>>

\* String.prototype.split(separator): every piece between two separators,
\* the start and the end of the string
Split(s, separator) ==
    LET at == {i \in 1..Len(s) : s[i] = separator}
        \* the place of the k-th separator; the start is 0, the end one
        \* beyond the last character
        Place(k) == CASE k = 0 -> 0
                      [] k > Cardinality(at) -> Len(s) + 1
                      [] OTHER -> CHOOSE i \in at :
                                      Cardinality({j \in at : j <= i}) = k
    IN  SubSeq([k \in 1..(Cardinality(at) + 1) |->
                   SubSeq(s, Place(k - 1) + 1, Place(k) - 1)],
               1, Cardinality(at) + 1)

\* a primitive value: t is "string" (s its characters), "number" (s the
\* decimal digits of its magnitude, or "Infinity"; n its sign, 1 or -1),
\* "NaN" or "undefined"
Str(s) == [t |-> "string", s |-> s, n |-> 0]
NaN == [t |-> "NaN", s |-> <<>>, n |-> 0]
NotGiven == [t |-> "undefined", s |-> <<>>, n |-> 0]

\* the number literal n
Number(n) ==
    LET magnitude == IF n < 0 THEN 0 - n ELSE n
        places == [i \in 1..10 |-> Digits[((magnitude \div 10 ^ (10 - i)) % 10) + 1]]
        first == IF magnitude = 0 THEN 10
                 ELSE CHOOSE i \in 1..10 :
                          /\ places[i] # "0"
                          /\ \A j \in 1..(i - 1) : places[j] = "0"
    IN  [t |-> "number", s |-> SubSeq(places, first, 10),
         n |-> IF n < 0 THEN 0 - 1 ELSE 1]

\* ToBoolean(v)
IsTruthy(v) ==
    \/ v.t = "string" /\ v.s # <<>>
    \/ v.t = "number" /\ v.s # <<"0">>

\* a || b
Or(a, b) == IF IsTruthy(a) THEN a ELSE b

\* const [first, second] = pieces: the k-th piece, undefined beyond the end
Piece(pieces, k) == IF k <= Len(pieces) THEN Str(pieces[k]) ELSE NotGiven

\* the white space and line terminators of the language: tab, line feed,
\* vertical tab, form feed, carriage return, space, no-break space, the
\* byte order mark, the line and paragraph separators and the other space
\* separators of Unicode
WhiteSpace ==
    {"\t", "\n", "u000B", "\f", "\r", " ", "u00A0", "uFEFF", "u2028",
     "u2029", "u1680", "u2000", "u2001", "u2002", "u2003", "u2004", "u2005",
     "u2006", "u2007", "u2008", "u2009", "u200A", "u202F", "u205F", "u3000"}

\* leading white space, which parseInt skips: s from its first character
\* that is no white space
TrimStart(s) ==
    LET others == {i \in 1..Len(s) : s[i] \notin WhiteSpace}
    IN  IF others = {} THEN <<>>
        ELSE SubSeq(s, CHOOSE i \in others : \A j \in others : i <= j, Len(s))

IsDigit(ch) == \E k \in 1..Len(Digits) : Digits[k] = ch

\* the longest run of digits s starts with
LeadingDigits(s) ==
    LET others == {i \in 1..Len(s) : ~IsDigit(s[i])}
    IN  IF others = {} THEN s
        ELSE SubSeq(s, 1, (CHOOSE i \in others : \A j \in others : i <= j) - 1)

RECURSIVE Binary(_, _)
\* the conversion of a natural number to binary, n steps further or until
\* nothing is left of the number: x.d are the values of the decimal digits
\* of what is left, x.bits the binary digits found, the most significant
\* first. A step halves what is left, its parity being the next binary
\* digit; the n steps are taken as two runs of half as many, which keeps
\* the nesting of the evaluation shallow
Binary(x, n) ==
    CASE n = 0 \/ \A i \in 1..Len(x.d) : x.d[i] = 0 -> x
      [] n = 1 ->
           [d |-> SubSeq([i \in 1..Len(x.d) |->
                             ((IF i > 1 THEN x.d[i - 1] % 2 ELSE 0) * 10 + x.d[i])
                                 \div 2],
                         1, Len(x.d)),
            bits |-> <<x.d[Len(x.d)] % 2>> \o x.bits]
      [] OTHER -> Binary(Binary(x, n \div 2), n - (n \div 2))

\* the binary digits of the Number value nearest to the natural number
\* with the binary digits `bits`: 53 significant digits, the tie to the
\* even one
Nearest(bits) ==
    LET keep == SubSeq(bits, 1, 53)
        rest == SubSeq(bits, 54, Len(bits))
        up == /\ rest[1] = 1
              /\ \/ keep[53] = 1
                 \/ \E i \in 2..Len(rest) : rest[i] = 1
        zeros == {i \in 1..53 : keep[i] = 0}
        Zeros(n) == SubSeq([i \in 1..n |-> 0], 1, n)
        Next(last) == SubSeq(keep, 1, last - 1) \o <<1>> \o Zeros(53 - last)
    IN  CASE Len(bits) <= 53 -> bits
          [] ~up -> keep \o Zeros(Len(rest))
          [] zeros = {} -> <<1>> \o Zeros(Len(bits))
          [] OTHER -> Next(CHOOSE i \in zeros : \A j \in zeros : j <= i)
                          \o Zeros(Len(rest))

RECURSIVE FromBinary(_, _, _)
\* the conversion of the binary digits `bits` to decimal, n steps further:
\* x.d are the values of the decimal digits of the number made of the
\* binary digits before x.k. A step doubles the number and adds the next
\* binary digit
FromBinary(bits, x, n) ==
    CASE n = 0 \/ x.k > Len(bits) -> x
      [] n = 1 ->
           LET sum == [i \in 1..Len(x.d) |->
                          IF i < Len(x.d)
                          THEN (2 * x.d[i] + (IF x.d[i + 1] >= 5 THEN 1 ELSE 0)) % 10
                          ELSE ((2 * x.d[i]) % 10) + bits[x.k]]
           IN  [d |-> (IF x.d[1] >= 5 THEN <<1>> ELSE <<>>)
                          \o SubSeq(sum, 1, Len(x.d)),
                k |-> x.k + 1]
      [] OTHER -> FromBinary(bits, FromBinary(bits, x, n \div 2), n - (n \div 2))

\* the magnitude of the Number value of a run of decimal digits: the
\* mathematical value (a decimal digit makes less than four binary ones)
\* rounded to the nearest double, Infinity beyond the largest one (2^1024
\* has 1025 binary digits)
Decimal(digits) ==
    LET DigitValue(ch) == (CHOOSE k \in 1..Len(Digits) : Digits[k] = ch) - 1
        values == SubSeq([i \in 1..Len(digits) |-> DigitValue(digits[i])],
                         1, Len(digits))
        Written(d) == [i \in 1..Len(d) |-> Digits[d[i] + 1]]
        Value(bits) ==
            IF Len(bits) > 1024 THEN <<"Infinity">>
            ELSE Written(FromBinary(bits, [d |-> <<0>>, k |-> 1], Len(bits)).d)
    IN  Value(Nearest(Binary([d |-> values, bits |-> <<>>],
                             4 * Len(digits)).bits))

\* parseInt(s, 10): white space, a sign, then the longest run of digits;
\* NaN when there is no digit there, -0 for a negative zero
ParseInt(s) ==
    LET trimmed == TrimStart(s)
        signed == trimmed # <<>> /\ Head(trimmed) \in {"+", "-"}
        digits == LeadingDigits(IF signed THEN Tail(trimmed) ELSE trimmed)
    IN  IF digits = <<>> THEN NaN
        ELSE [t |-> "number", s |-> Decimal(digits),
              n |-> IF signed /\ Head(trimmed) = "-" THEN 0 - 1 ELSE 1]

----------------------------------------------------------------------------
(* Contexts and propagation (collaborators) *)

NoSpan == "none"

\* a context carries the active span: a call's span, a span of the caller
\* or a remote span decoded from headers
Context(span) == [span |-> span]

\* the identity of the span started by the call numbered `id`
SpanId(id) == "call-" \o ToString(id)

ROOT_CONTEXT == Context(NoSpan)

\* contexts the caller may have made active around its calls
AmbientContexts == {ROOT_CONTEXT, Context("parent")}

\* propagation.extract(ctx, headers)
Extract(ctx, headers) ==
    IF headers.traceparent # NoSpan THEN Context(headers.traceparent) ELSE ctx

\* trace.setSpan(ctx, span)
SetSpan(ctx, span) == [ctx EXCEPT !.span = span]

----------------------------------------------------------------------------
(* Request descriptors: the second argument of inject *)

ATTR_HTTP_REQUEST_METHOD == "http.request.method"
ATTR_URL_FULL == "url.full"
ATTR_URL_PATH == "url.path"
ATTR_URL_QUERY == "url.query"
ATTR_URL_SCHEME == "url.scheme"
ATTR_SERVER_ADDRESS == "server.address"
ATTR_SERVER_PORT == "server.port"
ATTR_CLIENT_ADDRESS == "client.address"
ATTR_USER_AGENT_ORIGINAL == "user_agent.original"
ATTR_NETWORK_PROTOCOL_VERSION == "network.protocol.version"

\* the keys that are set only when their source is there
ConditionalKeys ==
    {ATTR_URL_QUERY, ATTR_SERVER_ADDRESS, ATTR_SERVER_PORT,
     ATTR_CLIENT_ADDRESS, ATTR_USER_AGENT_ORIGINAL,
     ATTR_NETWORK_PROTOCOL_VERSION}

\* opts.headers: `present` says whether there is a headers object;
\* traceparent is the span its trace context references, the other fields
\* are the headers the code reads: host, Host, 'user-agent', 'User-Agent',
\* 'http-version', httpVersion
NoHeaders ==
    [present |-> FALSE, traceparent |-> NoSpan,
     host |-> NotGiven, Host |-> NotGiven,
     user_agent |-> NotGiven, User_Agent |-> NotGiven,
     http_version |-> NotGiven, httpVersion |-> NotGiven]

Headers(traceparent) ==
    [NoHeaders EXCEPT !.present = TRUE, !.traceparent = traceparent]

\* absent, present without trace context, present with the trace context
\* of a remote span
HeaderChoices == {NoHeaders, Headers(NoSpan), Headers("remote")}

\* an options object { method, url, remoteAddress, payload, headers }
Options(method, url, remoteAddress, headers) ==
    [kind |-> "object", href |-> <<>>, method |-> method, url |-> url,
     remoteAddress |-> remoteAddress, payload |-> NotGiven,
     headers |-> headers]

\* a second argument that is no options object: a string, a URL object
\* (href is what its toString() gives) or nothing
Bare(kind, href) ==
    [Options(NotGiven, NotGiven, NotGiven, NoHeaders) EXCEPT
         !.kind = kind, !.href = href]

\* the top-level fields of an options object
Fields == {"method", "url", "remoteAddress", "payload", "headers"}

\* fault: a string argument is taken for the method
NormalizeAsMethod(options) ==
    IF options.kind \in {"string", "URL"}
    THEN Options(Str(options.href), NotGiven, NotGiven, NoHeaders)
    ELSE [options EXCEPT !.kind = "object"]

\* typeof options === 'string' || options instanceof URL
\*     ? { url: options.toString() } : { ...options }
Normalize(options) ==
    IF options.kind \in {"string", "URL"}
    THEN Options(NotGiven, Str(options.href), NotGiven, NoHeaders)
    ELSE [options EXCEPT !.kind = "object"]

GET == <<"G", "E", "T">>

\* (opts.method || 'GET').toUpperCase(): a method that is no string has no
\* toUpperCase
Method(opts) ==
    LET method == Or(opts.method, Str(GET))
    IN  IF method.t = "string" THEN Str(ToUpperCase(method.s)) ELSE method

\* opts.url || '/'
Url(opts) == Or(opts.url, Str(<<"/">>))

\* opts.headers.host || opts.headers.Host
Host(opts) == Or(opts.headers.host, opts.headers.Host)

\* the derivation of the attributes calls toUpperCase on the method and
\* split on the url and on the host: each is a TypeError on a value that is
\* no string
ThrowsTypeError(opts) ==
    \/ Method(opts).t # "string"
    \/ Url(opts).t # "string"
    \/ IsTruthy(Host(opts)) /\ Host(opts).t # "string"

\* attributes[key] = value
Put(attributes, key, value) == Append(attributes, <<key, value>>)

\* fault: the key is set whatever the value
PutAlways(attributes, key, value) == Append(attributes, <<key, value>>)

\* if (value) { attributes[key] = value }
PutIf(attributes, key, value) ==
    IF IsTruthy(value) THEN Put(attributes, key, value) ELSE attributes

\* the attributes the span is started with, for opts that do not throw
StartAttributes(opts) ==
    LET url == Url(opts)
        pieces == Split(url.s, "?")
        urlPath == Piece(pieces, 1)
        urlQuery == Piece(pieces, 2)
        always == <<<<ATTR_HTTP_REQUEST_METHOD, Method(opts)>>,
                    <<ATTR_URL_FULL, url>>,
                    <<ATTR_URL_PATH, urlPath>>,
                    <<ATTR_URL_SCHEME, Str(<<"h", "t", "t", "p">>)>>>>
        query == PutIf(always, ATTR_URL_QUERY, urlQuery)
        client == PutIf(query, ATTR_CLIENT_ADDRESS, opts.remoteAddress)
        userAgent == PutIf(client, ATTR_USER_AGENT_ORIGINAL,
                           Or(opts.headers.user_agent, opts.headers.User_Agent))
        httpVersion == PutIf(userAgent, ATTR_NETWORK_PROTOCOL_VERSION,
                             Or(opts.headers.http_version,
                                opts.headers.httpVersion))
        host == Host(opts)
        hostPieces == Split(host.s, ":")
        address == Piece(hostPieces, 1)
        port == Piece(hostPieces, 2)
        server == Put(httpVersion, ATTR_SERVER_ADDRESS, address)
    IN  IF ~IsTruthy(host) THEN httpVersion
        ELSE IF IsTruthy(port)
        THEN Put(server, ATTR_SERVER_PORT, ParseInt(port.s))
        ELSE server

\* fault: the span is named after the path
SpanNameFromPath(opts) ==
    Method(opts).s \o <<" ">> \o Split(Url(opts).s, "?")[1]

\* `${method} ${url}`
SpanName(opts) == Method(opts).s \o <<" ">> \o Url(opts).s

----------------------------------------------------------------------------
(* The span handle: a recorder of the calls made on it *)

UNSET == "UNSET"
OK == "OK"
ERROR == "ERROR"

ATTR_HTTP_RESPONSE_STATUS_CODE == "http.response.status_code"
ATTR_ERROR_TYPE == "error.type"

\* tracer.startSpan(name, { kind, attributes }, parentContext)
StartSpan(name, kind, attributes, parentContext) ==
    [name |-> name, kind |-> kind, parent |-> parentContext.span,
     attributes |-> attributes,
     status |-> UNSET, message |-> Absent, exceptions |-> <<>>, ended |-> 0]

\* the span of a call that has not started one
NotStarted ==
    [name |-> <<>>, kind |-> "none", parent |-> NoSpan, attributes |-> <<>>,
     status |-> UNSET, message |-> Absent, exceptions |-> <<>>, ended |-> 0]

\* span.setAttribute(key, value); attributes are kept as <<key, value>>
\* pairs, a later value for a key replacing the earlier one
SetAttribute(span, key, value) ==
    [span EXCEPT !.attributes =
        SelectSeq(@, LAMBDA kv : kv[1] # key) \o <<<<key, value>>>>]

HasAttribute(span, key) ==
    \E i \in 1..Len(span.attributes) : span.attributes[i][1] = key

Attribute(span, key) ==
    LET i == CHOOSE j \in 1..Len(span.attributes) : span.attributes[j][1] = key
    IN  span.attributes[i][2]

\* span.setStatus({ code, message })
SetStatus(span, code, message) ==
    [span EXCEPT !.status = code, !.message = message]

\* span.recordException(error)
RecordException(span, error) ==
    [span EXCEPT !.exceptions = Append(@, error)]

\* span.end()
End(span) == [span EXCEPT !.ended = @ + 1]

----------------------------------------------------------------------------
(* One call of patchedInject *)

SERVER == "SERVER"

Styles == {"callback", "promise"}

\* what the original inject does when it is invoked: it goes on as inject
\* does ("pending": with a callback it keeps the callback and returns
\* undefined, without one it returns a promise), it returns an object that
\* is no thenable, it returns undefined, or it throws synchronously
Delegations == {"pending", "value", "undefined", "throws"}

NotThenable == JsVal("object", 0, Absent, "Object", Absent)

DelegateThrows == ErrorOf("Error", "invalid options")
HookError == ErrorOf("Error", "Hook error")

\* a promise's state; a call's `outcome` is the delegate's promise, its
\* `result` what the caller got from patchedInject, its `adopted` the
\* promise a handler of wrapPromise returned; `handled` says whether a
\* handler of wrapPromise has run
Pending == [kind |-> "pending", value |-> Undefined]
Settled(kind, value) == [kind |-> kind, value |-> value]

\* a step of the call, in the order it happened
Do(c, event, span) == [c EXCEPT !.span = span, !.log = Append(@, event)]
Log(c, event) == [c EXCEPT !.log = Append(@, event)]

\* an exception leaves the function that is running
Throw(c, exception) == [c EXCEPT !.threw = TRUE, !.exception = exception]
Catch(c) == [c EXCEPT !.threw = FALSE, !.exception = Undefined]

\* the instrumentation's configuration: _requestHook and _responseHook,
\* each "none" (not configured), "ok" or "throws"
Instrumentation(onRequest, onResponseHook) ==
    [requestHook |-> onRequest, responseHook |-> onResponseHook]

\* opts[field] = value, or delete opts[field] for a value that is
\* undefined, done by the hook or by the delegate on the object it was
\* given: the caller's object changes with it when it is that object
Assign(c, field, value) ==
    [c EXCEPT !.opts[field] = value,
              !.options[field] = IF c.shared THEN value ELSE @]

PATCH == <<"p", "a", "t", "c", "h">>
BODY == <<"b", "o", "d", "y">>

\* fault: the requestHook is handed a copy of opts, what it assigns is lost
RequestHookOnCopy(c, instrumentation) ==
    LET called == Log(c, "requestHook")
    IN  CASE instrumentation.requestHook = "throws" ->
               Throw(called, HookError)
          [] instrumentation.requestHook = "assigns" -> called
          [] OTHER ->
               Do(called, "setAttribute",
                  SetAttribute(called.span, "custom.request", "true"))

\* instrumentation._requestHook(span, opts): the configured hook sets an
\* attribute on the span ("ok"), assigns and deletes fields of opts
\* ("assigns"), or throws
RequestHook(c, instrumentation) ==
    LET called == Log(c, "requestHook")
    IN  CASE instrumentation.requestHook = "throws" ->
               Throw(called, HookError)
          [] instrumentation.requestHook = "assigns" ->
               Assign(Assign(Assign(called, "method", Str(PATCH)),
                             "remoteAddress", NotGiven),
                      "payload", Str(BODY))
          [] OTHER ->
               Do(called, "setAttribute",
                  SetAttribute(called.span, "custom.request", "true"))

\* instrumentation._responseHook(span, response)
ResponseHook(c, response, instrumentation) ==
    LET called == Log(c, "responseHook")
    IN  IF instrumentation.responseHook = "throws"
        THEN Throw(called, HookError)
        ELSE Do(called, "setAttribute",
                SetAttribute(called.span, "custom.response", "true"))

\* fault: the hook is called without try/catch
Unisolated(c) == c

\* try { hook } catch (err) { instrumentation._diag.error(..., err) }
Isolated(c) == IF c.threw THEN Log(Catch(c), "diag.error") ELSE c

\* fault: the requestHook is never called
NeverHooked(c, instrumentation) == c

\* fault: the failure of the requestHook is put on the span
HookFailureOnSpan(c, instrumentation) ==
    LET hooked == Isolated(RequestHook(c, instrumentation))
    IN  CASE instrumentation.requestHook = "none" -> c
          [] instrumentation.requestHook = "throws" ->
               Do(hooked, "setStatus", SetStatus(hooked.span, ERROR, Absent))
          [] OTHER -> hooked

\* if (instrumentation._requestHook) { try { hook(span, opts) } catch ... }
CallRequestHook(c, instrumentation) ==
    IF instrumentation.requestHook # "none"
    THEN Isolated(RequestHook(c, instrumentation))
    ELSE c

\* if (instrumentation?._responseHook) { try { hook(span, response) } catch ... }
CallResponseHook(c, response, instrumentation) ==
    IF instrumentation.responseHook # "none"
    THEN Isolated(ResponseHook(c, response, instrumentation))
    ELSE c

\* fault: the headers are ignored
AmbientOnly(headers, current) == current

\* opts.headers ? propagation.extract(context.active(), opts.headers)
\*              : context.active()
ActiveContext(headers, current) ==
    IF headers.present THEN Extract(current, headers) ELSE current

\* fault: the delegate runs in the parent context, the span not set in it
ParentAsSpanContext(activeContext, span) == activeContext

\* trace.setSpan(activeContext, span)
SpanContext(activeContext, span) == SetSpan(activeContext, span)

\* context.with(ctx, fn): fn runs with ctx active, and the context that was
\* active before is active again when with returns or throws
ContextWith(current, ctx) == [during |-> ctx, after |-> current]

\* wrapCallback(span, callback, instrumentation) /
\* wrapPromise(span, result, instrumentation): a completion wrapper is
\* attached to the call's span
Wrap(c, wrapper) == [c EXCEPT !.wrappers = Append(@, wrapper)]

\* original.call(this, dispatchFunc, opts, wrappedCallback) /
\* original.call(this, dispatchFunc, opts): what the delegate is called with
Arguments(style) ==
    IF style = "callback" THEN <<"dispatchFunc", "opts", "wrappedCallback">>
    ELSE <<"dispatchFunc", "opts">>

\* fault: whatever the delegate returns gets the handlers of a promise
AnyResult(result) == TRUE

\* result && typeof result.then === 'function'
IsThenable(result) == Truthy(result) /\ result.t = "promise"

\* what original.call(...) returns for a delegate that behaves as `how`:
\* one that goes on as inject does returns undefined when it has a callback
\* and a promise when it has none
Returned(style, how) ==
    CASE how = "value" -> NotThenable
      [] how = "undefined" -> Undefined
      [] OTHER -> IF style = "callback" THEN Undefined
                  ELSE JsVal("promise", 0, Absent, "Promise", Absent)

\* if (typeof callback === 'function') { wrapCallback; return original.call(
\* this, dispatchFunc, opts, wrappedCallback) } else { result =
\* original.call(this, dispatchFunc, opts); return thenable ?
\* wrapPromise(span, result) : result }: with a callback the caller gets
\* what the delegate returned, whatever it is
Delegate(c, observed, how) ==
    LET wrapped == IF c.style = "callback" THEN Wrap(c, "wrapCallback") ELSE c
        invoked == [Log(wrapped, "delegate") EXCEPT
                        !.delegated = how, !.delegateContext = observed,
                        !.arguments = Arguments(c.style)]
        received == IF how = "assigns"
                    THEN Assign(Assign(Assign(invoked, "url", NotGiven),
                                       "headers", NoHeaders),
                                "payload", Str(BODY))
                    ELSE invoked
        result == Returned(c.style, how)
    IN  CASE how = "throws" -> Throw(invoked, DelegateThrows)
          [] c.style = "callback" \/ ~IsThenable(result) ->
               [received EXCEPT !.result = Settled("returned", result)]
          [] OTHER -> Wrap(received, "wrapPromise")

\* an exception that nothing caught leaves the interceptor: the caller of
\* the running function gets it
Escape(c) ==
    IF c.threw
    THEN [Catch(c) EXCEPT !.escaped = Append(@, c.exception)]
    ELSE c

\* fault: const opts = options
IsCallersObject(options) == options.kind = "object"

\* { ...options } and { url: ... } are new objects: opts is never the
\* object the caller passed
IsShared(options) == FALSE

\* patchedInject(dispatchFunc, options, callback), up to its return
patchedInject(id, style, options, how, current, instrumentation) ==
    LET opts == Normalize(options)
        called == [id |-> id, style |-> style, given |-> options,
                   options |-> options, opts |-> opts,
                   shared |-> IsShared(options),
                   headers |-> opts.headers,
                   ambient |-> current, span |-> NotStarted,
                   log |-> <<>>,
                   threw |-> FALSE, exception |-> Undefined,
                   escaped |-> <<>>, wrappers |-> <<>>,
                   delegated |-> "no", delegateContext |-> ROOT_CONTEXT,
                   arguments |-> <<>>,
                   after |-> current,
                   outcome |-> Pending, result |-> Pending,
                   adopted |-> Pending, handled |-> FALSE,
                   delivered |-> <<>>, callbacks |-> <<>>]
        activeContext == ActiveContext(opts.headers, current)
        span == StartSpan(SpanName(opts), SERVER, StartAttributes(opts),
                          activeContext)
        started == Do(called, "startSpan", span)
        spanContext == SpanContext(activeContext, SpanId(id))
        hooked == CallRequestHook(started, instrumentation)
        scope == ContextWith(current, spanContext)
        returned == IF hooked.threw THEN hooked
                    ELSE [Delegate(hooked, scope.during, how) EXCEPT
                              !.after = scope.after]
        left == IF ThrowsTypeError(opts) THEN Throw(called, TypeError)
                ELSE returned
    IN  IF left.threw
        THEN [Escape(left) EXCEPT !.result = Settled("thrown", left.exception)]
        ELSE left

----------------------------------------------------------------------------
(* Finalization *)

\* response.statusCode || 200
StatusCode(response) ==
    IF response.statusCode # 0 THEN response.statusCode ELSE 200

\* fault: > in place of >=
CodeAbove400(statusCode) == IF statusCode > 400 THEN ERROR ELSE OK

\* statusCode >= 400 ? SpanStatusCode.ERROR : SpanStatusCode.OK
Code(statusCode) == IF statusCode >= 400 THEN ERROR ELSE OK

\* fault: the responseHook is called before the status is set
onResponseHookFirst(c, response, instrumentation) ==
    IF ~HasProperties(response)
    THEN Throw(c, TypeError)
    ELSE
    LET statusCode == StatusCode(response)
        c1 == Do(c, "setAttribute",
                 SetAttribute(c.span, ATTR_HTTP_RESPONSE_STATUS_CODE,
                              statusCode))
        c2 == IF statusCode >= 400
              THEN Do(c1, "setAttribute",
                      SetAttribute(c1.span, ATTR_ERROR_TYPE,
                                   ToString(statusCode)))
              ELSE c1
        c3 == CallResponseHook(c2, response, instrumentation)
        c4 == Do(c3, "setStatus", SetStatus(c3.span, Code(statusCode), Absent))
    IN  Do(c4, "end", End(c4.span))

\* onResponse(span, response, instrumentation)
onResponse(c, response, instrumentation) ==
    IF ~HasProperties(response)
    THEN Throw(c, TypeError)
    ELSE
    LET statusCode == StatusCode(response)
        c1 == Do(c, "setAttribute",
                 SetAttribute(c.span, ATTR_HTTP_RESPONSE_STATUS_CODE,
                              statusCode))
        c2 == IF statusCode >= 400
              THEN Do(c1, "setAttribute",
                      SetAttribute(c1.span, ATTR_ERROR_TYPE,
                                   ToString(statusCode)))
              ELSE c1
        c3 == Do(c2, "setStatus", SetStatus(c2.span, Code(statusCode), Absent))
        c4 == CallResponseHook(c3, response, instrumentation)
    IN  IF c4.threw THEN c4 ELSE Do(c4, "end", End(c4.span))

\* fault: the error's name and constructor are not looked at
AlwaysError(error) == "Error"

\* error.name || error.constructor?.name || 'Error': a name that is
\* undefined or the empty string is falsy
ErrorType(error) ==
    IF error.name \notin {Absent, ""} THEN error.name
    ELSE IF error.ctor \notin {Absent, ""} THEN error.ctor
    ELSE "Error"

\* onError(span, error)
onError(c, error) ==
    LET c1 == Do(c, "recordException", RecordException(c.span, error))
    IN  IF ~HasProperties(error)
        THEN Throw(c1, TypeError)
        ELSE
        LET c2 == Do(c1, "setAttribute",
                     SetAttribute(c1.span, ATTR_ERROR_TYPE, ErrorType(error)))
            c3 == Do(c2, "setStatus",
                     SetStatus(c2.span, ERROR, error.message))
        IN  Do(c3, "end", End(c3.span))

\* the caller's callback gets (error, response)
Callback(c, error, response) ==
    [Log(c, "callback") EXCEPT !.callbacks = Append(@, <<error, response>>)]

\* fault: on an error the caller's callback gets the error alone
wrappedCallbackErrorOnly(c, error, response, instrumentation) ==
    LET got == [c EXCEPT !.delivered = Append(@, <<error, response>>)]
    IN  IF Truthy(error)
        THEN Callback(onError(got, error), error, Undefined)
        ELSE IF Truthy(response)
        THEN Callback(onResponse(got, response, instrumentation),
                      error, response)
        ELSE Callback(got, error, response)

\* fault: the response is looked at before the error
wrappedCallbackResponseFirst(c, error, response, instrumentation) ==
    LET got == [c EXCEPT !.delivered = Append(@, <<error, response>>)]
        finalized == IF Truthy(response)
                     THEN onResponse(got, response, instrumentation)
                     ELSE IF Truthy(error) THEN onError(got, error)
                     ELSE got
    IN  IF finalized.threw
        THEN Escape(finalized)
        ELSE Callback(finalized, error, response)

\* wrapCallback: wrappedCallback(error, response)
wrappedCallback(c, error, response, instrumentation) ==
    LET got == [c EXCEPT !.delivered = Append(@, <<error, response>>)]
        finalized == IF Truthy(error) THEN onError(got, error)
                     ELSE IF Truthy(response)
                     THEN onResponse(got, response, instrumentation)
                     ELSE got
    IN  IF finalized.threw
        THEN Escape(finalized)
        ELSE Callback(finalized, error, response)

\* promise.then(handler): the returned promise rejects with what the
\* handler throws
Then(c, value) ==
    IF c.threw
    THEN [Catch(c) EXCEPT !.result = Settled("rejected", c.exception)]
    ELSE [c EXCEPT !.result = value]

\* fault: wrapPromise finalizes without the instrumentation, so without
\* its responseHook
fulfillWithoutHooks(c, response, instrumentation) ==
    Then(onResponse([c EXCEPT !.handled = TRUE], response,
                    Instrumentation("none", "none")),
         Settled("fulfilled", response))

\* wrapPromise: fulfill(response), run by the job that reacts to the
\* fulfilment of the delegate's promise
fulfill(c, response, instrumentation) ==
    Then(onResponse([c EXCEPT !.handled = TRUE], response, instrumentation),
         Settled("fulfilled", response))

\* fault: the rejection handler does not re-reject
rejectSwallows(c, error) ==
    Then(onError([c EXCEPT !.handled = TRUE], error),
         Settled("fulfilled", Undefined))

\* wrapPromise: reject(error), run by the job that reacts to the rejection
\* of the delegate's promise. The handler returns Promise.reject(error), a
\* promise: when onError threw, the promise the caller holds rejects in
\* this job; otherwise it stays pending and adopts the returned promise
\* in a later job
reject(c, error) ==
    LET finalized == onError([c EXCEPT !.handled = TRUE], error)
    IN  IF finalized.threw
        THEN Then(finalized, Pending)
        ELSE [finalized EXCEPT !.adopted = Settled("rejected", error)]

\* promise.then(fulfill, reject): the promise the caller holds settles as
\* the promise its handler returned
adopt(c) == [c EXCEPT !.result = c.adopted]

----------------------------------------------------------------------------
(* The installer: _patch and _unpatch *)

\* a value handed to _patch / _unpatch: null, undefined, a primitive, or the
\* object or function number `id` of the heap
NullValue == [t |-> "null", id |-> 0]
UndefinedValue == [t |-> "undefined", id |-> 0]
NumberValue == [t |-> "number", id |-> 0]
Ref(id) == [t |-> "object", id |-> id]

\* an object of the language, which is no object of the heap:
\* "Object.prototype", "Function.prototype", or the "prototype" object a
\* function declaration is made with
Intrinsic(name) == [t |-> "intrinsic", id |-> name]

\* an object of the heap: callable (typeof is 'function') or not, its
\* Symbol.toStringTag, its enumerable properties as <<key, value>> pairs,
\* its [kOriginal] property, for a patchedInject the original it calls, its
\* own writable properties that are not enumerable, its [[Prototype]],
\* whether it is frozen, and whether it is the namespace the loader of ES
\* modules makes. Neither a frozen object nor a namespace can be written;
\* a key inherited from a frozen object cannot be written on the heir
\* either, a key inherited from a namespace can: the engine gives the heir
\* a property of its own
Object(callable, tag, props) ==
    [callable |-> callable, tag |-> tag, props |-> props,
     original |-> UndefinedValue, wraps |-> UndefinedValue,
     hidden |-> <<>>,
     proto |-> Intrinsic(IF callable THEN "Function.prototype"
                         ELSE "Object.prototype"),
     frozen |-> FALSE, namespace |-> FALSE]

\* the inject function of light-my-request with the aliases it carries, a
\* helper it exports, a plain object, a namespace whose default is inject, a
\* namespace whose default is an object, a namespace without default, an
\* inject that is a class with a static member named length
\* (class Inject { static isInjection = ...; static length = 3; static
\* inject = Inject }, whose Object.keys are length, isInjection, inject:
\* the class is made with a length, which keeps its place), a namespace
\* whose default is that class: these namespaces are objects that carry the
\* tag and can be written. Object 9 is the namespace the loader of ES
\* modules makes, with inject as its default: it has no [[Prototype]] and
\* cannot be written. Object 10 is a frozen object with the tag
\* (Object.freeze of a namespace-like object), 11 an object made of the
\* namespace (Object.create(namespace)), 12 an object made of the frozen
\* one, 13 an inject that carries an enumerable property __proto__ whose
\* value is the frozen object, 14 an inject that carries an enumerable
\* property call whose value is the helper
LightMyRequest ==
    <<Object(TRUE, Absent, <<<<"default", Ref(1)>>, <<"inject", Ref(1)>>,
                             <<"isInjection", Ref(2)>>>>),
      Object(TRUE, Absent, <<>>),
      Object(FALSE, Absent, <<<<"inject", Ref(1)>>>>),
      Object(FALSE, "Module", <<<<"default", Ref(1)>>, <<"inject", Ref(1)>>>>),
      Object(FALSE, "Module", <<<<"default", Ref(3)>>>>),
      Object(FALSE, "Module", <<<<"inject", Ref(1)>>>>),
      Object(TRUE, Absent, <<<<"length", NumberValue>>, <<"isInjection", Ref(2)>>,
                             <<"inject", Ref(7)>>>>),
      Object(FALSE, "Module", <<<<"default", Ref(7)>>>>),
      [Object(FALSE, "Module", <<<<"default", Ref(1)>>, <<"inject", Ref(1)>>>>)
           EXCEPT !.proto = NullValue, !.namespace = TRUE],
      [Object(FALSE, "Module", <<<<"default", Ref(1)>>, <<"inject", Ref(1)>>>>)
           EXCEPT !.frozen = TRUE],
      [Object(FALSE, Absent, <<>>) EXCEPT !.proto = Ref(9)],
      [Object(FALSE, Absent, <<>>) EXCEPT !.proto = Ref(10)],
      Object(TRUE, Absent, <<<<"isInjection", Ref(2)>>, <<"__proto__", Ref(10)>>>>),
      Object(TRUE, Absent, <<<<"call", Ref(2)>>, <<"isInjection", Ref(2)>>>>)>>

\* the shapes of module exports the loader may hand to _patch
ModuleShapes ==
    {NullValue, UndefinedValue, NumberValue,
     Ref(1), Ref(3), Ref(4), Ref(5), Ref(6), Ref(7), Ref(8), Ref(9),
     Ref(10), Ref(11), Ref(12), Ref(13), Ref(14)}

IsObject(v) == v.t = "object"

\* fault: every object is taken for a function
TypeofObject(h, v) == IsObject(v)

\* typeof v === 'function'
IsFunction(h, v) == IsObject(v) /\ h[v.id].callable

RECURSIVE Chain(_, _)
\* the objects of the heap a property of v is looked up in: v and the
\* objects of its prototype chain
Chain(h, v) ==
    IF IsObject(v) THEN <<v.id>> \o Chain(h, h[v.id].proto) ELSE <<>>

\* v?.[key]: the property of the first object of the chain that owns one;
\* __proto__ is an accessor of Object.prototype that gives the
\* [[Prototype]]
Get(h, v, key) ==
    LET chain == Chain(h, v)
        Own(id) == h[id].props \o h[id].hidden
        Has(id) == \E i \in 1..Len(Own(id)) : Own(id)[i][1] = key
        holders == SelectSeq(chain, Has)
    IN  IF holders # <<>>
        THEN LET own == Own(holders[1])
                 i == CHOOSE j \in 1..Len(own) : own[j][1] = key
             IN  own[i][2]
        ELSE IF /\ key = "__proto__"
                /\ chain # <<>>
                /\ h[chain[Len(chain)]].proto # NullValue
        THEN h[v.id].proto
        ELSE UndefinedValue

\* v[key] = value, when it does not throw: a property v owns gets the
\* value and keeps its place and its kind (the prototype of a function
\* declaration stays out of Object.keys); __proto__ goes to the setter v
\* inherits from Object.prototype, which makes an object or null the
\* [[Prototype]] and ignores any other value; any other key becomes a new
\* enumerable property
Set(h, v, key, value) ==
    LET Written(pairs) == [i \in 1..Len(pairs) |->
                           IF pairs[i][1] = key THEN <<key, value>> ELSE pairs[i]]
        Owns(pairs) == \E i \in 1..Len(pairs) : pairs[i][1] = key
        chain == Chain(h, v)
    IN  IF Owns(h[v.id].props) THEN [h EXCEPT ![v.id].props = Written(@)]
        ELSE IF Owns(h[v.id].hidden) THEN [h EXCEPT ![v.id].hidden = Written(@)]
        ELSE IF key = "__proto__" /\ h[chain[Len(chain)]].proto # NullValue
        THEN IF IsObject(value) \/ value = NullValue
             THEN [h EXCEPT ![v.id].proto = value]
             ELSE h
        ELSE [h EXCEPT ![v.id].props = Append(@, <<key, value>>)]

\* the properties a function is made with that an assignment cannot write:
\* name and length are read-only properties of the function, caller and
\* arguments are accessors of Function.prototype whose setter throws
ReadOnly == {"name", "length", "caller", "arguments"}

\* whether v[key] = value throws: in strict mode the assignment is a
\* TypeError when v cannot be written - it is frozen, or a namespace - or
\* when the first object of the chain that holds the key holds it
\* read-only: a frozen object, a function its name and length unless it
\* was made with a static member of that name, and Function.prototype the
\* four of ReadOnly. A key the first holder of which is a namespace v
\* inherits from is written on v
SetThrows(h, v, key) ==
    LET chain == Chain(h, v)
        Has(k) == \E i \in 1..Len(h[chain[k]].props \o h[chain[k]].hidden) :
                      (h[chain[k]].props \o h[chain[k]].hidden)[i][1] = key
        Fixed(k) == \/ Has(k) /\ h[chain[k]].frozen
                    \/ /\ ~Has(k)
                       /\ h[chain[k]].callable
                       /\ key \in {"name", "length"}
    IN  \/ h[v.id].frozen
        \/ h[v.id].namespace
        \/ \E k \in 1..Len(chain) : Fixed(k) /\ \A j \in 1..(k - 1) : ~Has(j)
        \/ /\ key \in ReadOnly
           /\ h[chain[Len(chain)]].proto = Intrinsic("Function.prototype")
           /\ \A j \in 1..Len(chain) : ~Has(j)

\* Object.keys(v)
Keys(h, v) == [i \in 1..Len(h[v.id].props) |-> h[v.id].props[i][1]]

RECURSIVE CopyKeys(_, _, _, _)
\* Object.keys(original).forEach(key => { patchedInject[key] = original[key] }):
\* the heap as the loop leaves it, which ends at the first assignment that
\* throws
CopyKeys(h, original, wrapper, keys) ==
    IF keys = <<>> \/ SetThrows(h, wrapper, Head(keys)) THEN h
    ELSE CopyKeys(Set(h, wrapper, Head(keys), Get(h, original, Head(keys))),
                  original, wrapper, Tail(keys))

RECURSIVE CopyThrows(_, _, _, _)
\* whether that loop throws
CopyThrows(h, original, wrapper, keys) ==
    /\ keys # <<>>
    /\ \/ SetThrows(h, wrapper, Head(keys))
       \/ CopyThrows(Set(h, wrapper, Head(keys), Get(h, original, Head(keys))),
                     original, wrapper, Tail(keys))

\* fault: the original is marked as well, as its own original
PatchInjectMarksOriginal(h, original) ==
    Append([h EXCEPT ![original.id].original = original],
           [Object(TRUE, Absent, <<>>) EXCEPT
                !.original = original, !.wraps = original,
                !.hidden = <<<<"prototype", Intrinsic("prototype")>>>>])

\* this._patchInject()(original) and patchedInject[kOriginal] = original:
\* a new function that calls `original`; patchedInject is a function
\* declaration, which is made with a prototype
PatchInject(h, original) ==
    Append(h, [Object(TRUE, Absent, <<>>) EXCEPT
                   !.original = original, !.wraps = original,
                   !.hidden = <<<<"prototype", Intrinsic("prototype")>>>>])

\* what a call of _patch / _unpatch did: the heap it left, what it returned,
\* how many times it called this._diag.warn, whether it threw
Done(h, returned, warnings, threw) ==
    [heap |-> h, returned |-> returned, warnings |-> warnings, threw |-> threw]

\* fault: the wrapper of a function gets the copied properties only, its
\* default and inject are left as they were copied
PatchWithoutAliases(h, exports) ==
    LET patched == Ref(Len(h) + 1)
    IN  IF ~IsFunction(h, exports) THEN Done(h, exports, 1, FALSE)
        ELSE Done(CopyKeys(PatchInject(h, exports), exports, patched,
                           Keys(h, exports)),
                  patched, 0, FALSE)

\* _patch(moduleExports, moduleVersion): a TypeError of the copy of the
\* properties, of the assignment to a default that cannot be written, or
\* of the assignment of an alias to the wrapper (which, after the copy, may
\* inherit the alias from an object that holds it read-only) leaves _patch
\* at that assignment, the heap as the assignments before it left it
_patch(h, exports) ==
    LET tagged == SelectSeq(Chain(h, exports), LAMBDA id : h[id].tag # Absent)
        isESM == tagged # <<>> /\ h[tagged[1]].tag = "Module"
        original == IF isESM THEN Get(h, exports, "default") ELSE exports
        patched == Ref(Len(h) + 1)
        wrapped == PatchInject(h, original)
        copied == CopyKeys(wrapped, original, patched, Keys(h, original))
        threw == CopyThrows(wrapped, original, patched, Keys(h, original))
        aliased == Set(copied, patched, "default", patched)
    IN  IF isESM
        THEN IF ~IsFunction(h, original)
             THEN Done(h, exports, 1, FALSE)
             ELSE IF threw \/ SetThrows(copied, exports, "default")
             THEN Done(copied, UndefinedValue, 0, TRUE)
             ELSE Done(Set(copied, exports, "default", patched),
                       patched, 0, FALSE)
        ELSE IF ~IsFunction(h, exports)
             THEN Done(h, exports, 1, FALSE)
             ELSE IF threw \/ SetThrows(copied, patched, "default")
             THEN Done(copied, UndefinedValue, 0, TRUE)
             ELSE IF SetThrows(aliased, patched, "inject")
             THEN Done(aliased, UndefinedValue, 0, TRUE)
             ELSE Done(Set(aliased, patched, "inject", patched),
                       patched, 0, FALSE)

\* the spans one call through v starts: a wrapper made by _patchInject
\* starts its span and calls original.call(...), the property call of the
\* function it wraps: a property the original owns or inherits from an
\* object of the heap (a copied key call, on a wrapper), which is called
\* when it is a function and is a TypeError when it is not, or else
\* Function.prototype.call, which calls the original; an original that
\* does not reach Function.prototype has no call at all. A function that
\* is no wrapper starts none
RECURSIVE SpansStarted(_, _)
SpansStarted(h, v) ==
    LET original == h[v.id].wraps
        chain == Chain(h, original)
        Own(id) == h[id].props \o h[id].hidden
        held == \E k \in 1..Len(chain) : \E i \in 1..Len(Own(chain[k])) :
                    Own(chain[k])[i][1] = "call"
        call == Get(h, original, "call")
    IN  IF ~IsObject(v) \/ ~IsObject(h[v.id].wraps) THEN 0
        ELSE IF held
        THEN 1 + (IF IsFunction(h, call) THEN SpansStarted(h, call) ELSE 0)
        ELSE IF h[chain[Len(chain)]].proto = Intrinsic("Function.prototype")
        THEN 1 + SpansStarted(h, original)
        ELSE 1

\* _unpatch(moduleExports, moduleVersion): moduleExports[kOriginal] is a
\* TypeError on null and undefined
_unpatch(h, exports) ==
    LET marked == SelectSeq(Chain(h, exports),
                            LAMBDA id : h[id].original # UndefinedValue)
        original == IF marked # <<>> THEN h[marked[1]].original
                    ELSE UndefinedValue
    IN  IF exports.t \in {"null", "undefined"}
        THEN Done(h, UndefinedValue, 0, TRUE)
        ELSE IF IsObject(original) THEN Done(h, original, 0, FALSE)
        ELSE Done(h, exports, 0, FALSE)

\* the calls of the patched inject are made with light-my-request loaded
\* and no _patch or _unpatch going on
InstallerIdle ==
    /\ moduleExports = Ref(1)
    /\ heap = LightMyRequest
    /\ installs = <<>>

----------------------------------------------------------------------------
(* Actions *)

TEST == <<"/", "t", "e", "s", "t">>

\* the requests of the callers of Spec: { method: 'GET', url: '/test' }
\* without headers, with headers, with the headers of a remote span
Requests ==
    {Options(Str(GET), Str(TEST), NotGiven, headers) : headers \in HeaderChoices}

\* `this` of the instrumentation
Self == Instrumentation(requestHook, responseHook)

\* fault: the wrappers finalize the span that was started last, as if
\* patchedInject kept it on the instrumentation
LastStarted(i) == Len(calls)

\* the call whose span and callback the wrapper handed to the delegate of
\* call i closes over: wrapCallback and wrapPromise get the span of their
\* own call as an argument
Closure(i) == i

\* new LightMyRequestInstrumentation({ requestHook, responseHook })
Init ==
    /\ requestHook \in {"none", "ok", "throws"}
    /\ responseHook \in {"none", "ok", "throws"}
    /\ active \in AmbientContexts
    /\ calls = <<>>
    /\ jobs = <<>>
    /\ InstallerIdle

\* the caller calls the patched inject
PatchedInject(style, options, how) ==
    /\ Len(calls) < MaxCalls
    /\ LET c == patchedInject(Len(calls) + 1, style, options, how, active,
                               Self)
       IN  /\ calls' = Append(calls, c)
           /\ active' = c.after
    /\ UNCHANGED <<requestHook, responseHook>>
    /\ UNCHANGED installerVars
    /\ UNCHANGED jobs

\* the delegate invokes the callback it was given
WrappedCallback(i, error, response) ==
    /\ calls[i].style = "callback"
    /\ calls[i].delegated \notin {"no", "throws"}
    /\ Len(calls[i].delivered) < MaxInvocations
    /\ calls' = [calls EXCEPT ![Closure(i)] = wrappedCallback(@, error, response, Self)]
    /\ UNCHANGED <<requestHook, responseHook, active>>
    /\ UNCHANGED installerVars
    /\ UNCHANGED jobs

\* the delegate's promise fulfils: promise.then(fulfill, reject) was called
\* on it (line 301), so the job that runs fulfill is queued; it runs later
Fulfill(i, response) ==
    /\ calls[i].style = "promise"
    /\ calls[i].delegated = "pending"
    /\ calls[i].outcome = Pending
    /\ calls' = [calls EXCEPT ![i].outcome = Settled("fulfilled", response)]
    /\ jobs' = Append(jobs, <<"reaction", i>>)
    /\ UNCHANGED <<requestHook, responseHook, active>>
    /\ UNCHANGED installerVars

\* the delegate's promise rejects: the job that runs reject is queued
Reject(i, error) ==
    /\ calls[i].style = "promise"
    /\ calls[i].delegated = "pending"
    /\ calls[i].outcome = Pending
    /\ calls' = [calls EXCEPT ![i].outcome = Settled("rejected", error)]
    /\ jobs' = Append(jobs, <<"reaction", i>>)
    /\ UNCHANGED <<requestHook, responseHook, active>>
    /\ UNCHANGED installerVars

\* the oldest waiting job runs. A reaction runs the handler of wrapPromise
\* that matches the state of the delegate's promise, on the span the
\* handler closes over; a rejection handler that returned normally returned
\* a promise, Promise.reject(error), which the caller's promise is resolved
\* with: a job is queued that calls then on the returned promise, that job
\* queues the reaction to its rejection, and that reaction rejects the
\* promise the caller holds. Whatever else happens - other calls, their
\* callbacks, the settling of other promises - happens between two jobs
PromiseJob ==
    /\ jobs # <<>>
    /\ LET kind == Head(jobs)[1]
           i == Head(jobs)[2]
           settled == calls[i].outcome
           handled == IF settled.kind = "fulfilled"
                      THEN fulfill(calls[Closure(i)], settled.value, Self)
                      ELSE reject(calls[Closure(i)], settled.value)
       IN  CASE kind = "reaction" ->
                  /\ calls' = [calls EXCEPT ![Closure(i)] = handled]
                  /\ jobs' = IF handled.adopted # Pending
                             THEN Append(Tail(jobs), <<"thenable", i>>)
                             ELSE Tail(jobs)
             [] kind = "thenable" ->
                  /\ calls' = calls
                  /\ jobs' = Append(Tail(jobs), <<"adopt", i>>)
             [] OTHER ->
                  /\ calls' = [calls EXCEPT ![i] = adopt(@)]
                  /\ jobs' = Tail(jobs)
    /\ UNCHANGED <<requestHook, responseHook, active>>
    /\ UNCHANGED installerVars

\* with a callback a delegate that returns undefined is the "pending"
\* one; the delegates that complete a call of Spec are the "pending" ones,
\* those of SpecConcurrent also the ones that returned an object
Next ==
    \/ \E style \in Styles :
           \E options \in Requests,
              how \in {h \in Delegations : style = "callback" => h # "undefined"} :
               PatchedInject(style, options, how)
    \/ \E i \in {j \in 1..Len(calls) : calls[j].delegated = "pending"},
          args \in CallbackArgs :
           WrappedCallback(i, args[1], args[2])
    \/ \E i \in 1..Len(calls), response \in FulfilValues : Fulfill(i, response)
    \/ \E i \in 1..Len(calls),
          error \in {e \in RejectValues : e.name \in {Absent, "Error", "CustomError"}
                                            /\ e.ctor = e.name} :
           Reject(i, error)
    \/ PromiseJob

Spec == Init /\ [][Next]_vars

\* the (error, response) pairs of a delegate that fails: each kind of
\* error, alone and beside a response
ErrorArgs == Errors \X {Null, Response(200)}

\* calls whose delegate fails, with every kind of error: a named error, an
\* object without name, with an empty name, without constructor, of an
\* anonymous class, and no error object at all
NextErrors ==
    \/ \E style \in Styles, options \in {o \in Requests : ~o.headers.present} :
           PatchedInject(style, options, "pending")
    \/ \E i \in 1..Len(calls), args \in ErrorArgs :
           WrappedCallback(i, args[1], args[2])
    \/ \E i \in 1..Len(calls), error \in RejectValues : Reject(i, error)
    \/ PromiseJob

SpecErrors == Init /\ [][NextErrors]_vars

\* a delegate that breaks the callback contract: it invokes the callback it
\* was given once more than the MaxInvocations times of a behaviour of Spec
WrappedCallbackAgain(i, error, response) ==
    /\ calls[i].style = "callback"
    /\ calls[i].delegated \notin {"no", "throws"}
    /\ Len(calls[i].delivered) = MaxInvocations
    /\ calls' = [calls EXCEPT ![Closure(i)] = wrappedCallback(@, error, response, Self)]
    /\ UNCHANGED <<requestHook, responseHook, active>>
    /\ UNCHANGED installerVars
    /\ UNCHANGED jobs

NextRepeat ==
    \/ Next
    \/ \E i \in {j \in 1..Len(calls) : calls[j].delegated = "pending"},
          args \in CallbackArgs :
           WrappedCallbackAgain(i, args[1], args[2])

\* the interceptor under a delegate that may invoke the callback again
SpecRepeat == Init /\ [][NextRepeat]_vars

\* a caller calls the patched inject while the calls made before are still
\* there, one call more than the MaxCalls calls of a behaviour of Spec
PatchedInjectMeanwhile(style, options) ==
    /\ Len(calls) = MaxCalls
    /\ LET c == patchedInject(Len(calls) + 1, style, options, "pending",
                               active, Self)
       IN  /\ calls' = Append(calls, c)
           /\ active' = c.after
    /\ UNCHANGED <<requestHook, responseHook>>
    /\ UNCHANGED installerVars
    /\ UNCHANGED jobs

NextConcurrent ==
    \/ \E style \in Styles, options \in {o \in Requests : ~o.headers.present},
          how \in {"pending", "value"} :
           PatchedInject(style, options, how)
    \/ \E style \in Styles, options \in Requests :
           PatchedInjectMeanwhile(style, options)
    \/ \E i \in 1..Len(calls),
          args \in {a \in CallbackArgs :
                       \/ a[2].statusCode = 200 /\ ~Truthy(a[1])
                       \/ a[1].name = "Error"} :
           WrappedCallback(i, args[1], args[2])
    \/ \E i \in 1..Len(calls),
          response \in {r \in Responses : r.statusCode \in {200, 500}} :
           Fulfill(i, response)
    \/ \E i \in 1..Len(calls), error \in {e \in Errors : e.name = "Error"} :
           Reject(i, error)
    \/ PromiseJob

\* the interceptor with several calls in flight, completed in any order
SpecConcurrent == Init /\ [][NextConcurrent]_vars

----------------------------------------------------------------------------
(* The interceptor over request descriptors of every shape *)

\* urls: none, '', a path, a path with a query, with two '?', with an
\* empty query, with an empty path, the url of the span-name test, and a
\* url that is no string
Urls ==
    {NotGiven, Str(<<>>), Str(TEST),
     Str(<<"/", "t", "e", "s", "t", "?", "f", "o", "o", "=", "b", "a", "r">>),
     Str(<<"/", "a", "p", "i", "/", "s", "e", "a", "r", "c", "h", "?", "q", "=", "t", "e", "s", "t", "&", "l", "i", "m", "i", "t", "=", "1", "0">>),
     Str(<<"/", "a", "?", "b", "?", "c">>),
     Str(<<"/", "a", "?">>),
     Str(<<"?", "x">>),
     Number(123)}

\* methods: none, lower case, upper case, mixed, one whose upper case is
\* longer ('stra\u00DFe'), one of a letter beyond Latin-1, a ligature and a
\* letter beyond U+FFFF ('\u0101\uFB03\u{10428}'), and no string
Methods ==
    {NotGiven, Str(<<"g", "e", "t">>), Str(<<"P", "O", "S", "T">>),
     Str(<<"P", "u", "t">>), Str(<<"s", "t", "r", "a", "u00DF", "e">>),
     Str(<<"u0101", "uFB03", "uD801", "uDC28">>),
     Number(1)}

\* host header values: a name, a name and a port, more than one colon, an
\* empty port, an empty name, an IPv6 literal, a port that is no number, a
\* port after a space, a port after a tab, and a value that is no string
Hosts ==
    {Str(<<"e", "x", "a", "m", "p", "l", "e", ".", "c", "o", "m">>),
     Str(<<"e", "x", "a", "m", "p", "l", "e", ".", "c", "o", "m", ":", "8", "0", "8", "0">>),
     Str(<<"a", ":", "8", "0", ":", "9", "0">>),
     Str(<<"a", ":", ":", "8", "0">>),
     Str(<<"a", ":">>),
     Str(<<":", "8", "0">>),
     Str(<<"[", ":", ":", "1", "]", ":", "8", "0", "8", "0">>),
     Str(<<"a", ":", "a", "b", "c">>),
     Str(<<"a", ":", " ", "8", "0">>),
     Str(<<"a", ":", "\t", "8", "0">>),
     Number(8080)}

\* host header values with a port beyond 2^53: 2^53 + 1 and one of thirty
\* digits
LargePorts ==
    {Str(<<"a", ":", "9", "0", "0", "7", "1", "9", "9", "2", "5", "4", "7", "4", "0", "9", "9", "3">>),
     Str(<<"a", ":", "1", "2", "3", "4", "5", "6", "7", "8", "9", "0", "1", "2", "3", "4", "5", "6", "7", "8", "9", "0", "1", "2", "3", "4", "5", "6", "7", "8", "9", "0">>)}

\* { url }, { method }, { method, url: '/test?foo=bar' }
UrlRequests ==
    {Options(pair[1], pair[2], NotGiven, NoHeaders) :
         pair \in ({NotGiven} \X Urls)
                      \cup (Methods \X {NotGiven, Str(<<"/", "t", "e", "s", "t", "?", "f", "o", "o", "=", "b", "a", "r">>)})}

\* { url: '/test', headers: { host } }, { Host }, and both
HostRequests ==
    {Options(NotGiven, Str(TEST), NotGiven,
             [Headers(NoSpan) EXCEPT !.host = pair[1], !.Host = pair[2]]) :
         pair \in ({NotGiven} \X (Hosts \cup LargePorts))
                      \cup ((Hosts \cup LargePorts) \X {NotGiven})
                      \cup {<<Str(<<"e", "x", "a", "m", "p", "l", "e", ".", "c", "o", "m">>), Str(<<"e", "x", "a", "m", "p", "l", "e", ".", "c", "o", "m", ":", "8", "0", "8", "0">>)>>}}

\* { url: '/test', remoteAddress, headers: { 'user-agent', 'User-Agent' } }
\* and { url: '/test', headers: { 'http-version', httpVersion } }
AgentRequests ==
    LET Agents == {NotGiven, Str(<<"M", "o", "z", "i", "l", "l", "a", "/", "5", ".", "0">>), Str(<<"c", "u", "r", "l">>)}
        Versions == {NotGiven, Str(<<"1", ".", "1">>), Str(<<"2">>)}
        Addresses == {NotGiven, Str(<<"1", "9", "2", ".", "1", "6", "8", ".", "1", ".", "1", "0", "0">>)}
    IN  {Options(NotGiven, Str(TEST), remoteAddress,
                 [Headers(NoSpan) EXCEPT
                      !.user_agent = lower, !.User_Agent = capitalized]) :
             remoteAddress \in Addresses, lower \in Agents,
             capitalized \in Agents}
        \cup
        {Options(NotGiven, Str(TEST), NotGiven,
                 [Headers(NoSpan) EXCEPT
                      !.http_version = dashed, !.httpVersion = camel]) :
             dashed \in Versions, camel \in Versions}

\* inject(dispatch, '/test?foo=bar'), inject(dispatch, ''),
\* inject(dispatch, new URL(...)), inject(dispatch)
BareRequests ==
    {Bare("string", <<"/", "t", "e", "s", "t", "?", "f", "o", "o", "=", "b", "a", "r">>),
     Bare("string", <<>>),
     Bare("URL", <<"h", "t", "t", "p", ":", "/", "/", "l", "o", "c", "a", "l", "h", "o", "s", "t", "/", "t", "e", "s", "t", "?", "x", "=", "1">>),
     Bare("undefined", <<>>)}

\* the requests of the callers of SpecRequest: the ones above, those with a
\* host header taken without the ports beyond 2^53, which are SpecHosts'
Descriptors ==
    Requests \cup UrlRequests \cup AgentRequests \cup BareRequests
        \cup {request \in HostRequests :
                  {request.headers.host, request.headers.Host} \cap LargePorts = {}}

\* an instrumentation whose requestHook, if any, assigns to the options it
\* is given or throws
InitRequest ==
    /\ requestHook \in {"none", "assigns", "throws"}
    /\ responseHook = "none"
    /\ active = ROOT_CONTEXT
    /\ calls = <<>>
    /\ jobs = <<>>
    /\ InstallerIdle

\* the delegate is a pending one, or one that assigns and deletes fields of
\* the options it is given before it goes on as a pending one
NextRequest ==
    \E style \in Styles, options \in Descriptors, how \in {"pending", "assigns"} :
        PatchedInject(style, options, how)

SpecRequest == InitRequest /\ [][NextRequest]_vars

\* the callers whose requests have a host header, the ports beyond 2^53
\* among them
NextHosts ==
    \E style \in Styles, options \in HostRequests,
       how \in {"pending", "assigns"} :
        PatchedInject(style, options, how)

SpecHosts == InitRequest /\ [][NextHosts]_vars

----------------------------------------------------------------------------
(* The loader calls the installer *)

\* the values the loader can hand over: the exports it found and whatever
\* an earlier _patch or _unpatch returned
Known == {moduleExports} \cup {installs[i].returned : i \in 1..Len(installs)}

Installed(op, exports, done) ==
    [op |-> op, exports |-> exports, before |-> heap, after |-> done.heap,
     returned |-> done.returned, warnings |-> done.warnings,
     threw |-> done.threw]

\* the loader calls _patch(exports)
Patch(exports) ==
    /\ Len(installs) < MaxInstalls
    /\ LET done == _patch(heap, exports)
       IN  /\ heap' = done.heap
           /\ installs' = Append(installs, Installed("patch", exports, done))
    /\ UNCHANGED <<requestHook, responseHook, active, calls, moduleExports,
                   jobs>>

\* the loader calls _unpatch(exports)
Unpatch(exports) ==
    /\ Len(installs) < MaxInstalls
    /\ LET done == _unpatch(heap, exports)
       IN  /\ heap' = done.heap
           /\ installs' = Append(installs, Installed("unpatch", exports, done))
    /\ UNCHANGED <<requestHook, responseHook, active, calls, moduleExports,
                   jobs>>

\* light-my-request is loaded in one of its shapes; no call is made
InitInstaller ==
    /\ requestHook = "none"
    /\ responseHook = "none"
    /\ active = ROOT_CONTEXT
    /\ calls = <<>>
    /\ jobs = <<>>
    /\ moduleExports \in ModuleShapes
    /\ heap = LightMyRequest
    /\ installs = <<>>

NextInstaller ==
    \/ \E exports \in Known : Patch(exports)
    \/ \E exports \in Known : Unpatch(exports)

SpecInstaller == InitInstaller /\ [][NextInstaller]_vars

----------------------------------------------------------------------------
(* Vocabulary of the properties *)

Calls == {calls[i] : i \in 1..Len(calls)}

\* how many times `event` happened in a call
Count(log, event) == Cardinality({k \in 1..Len(log) : log[k] = event})

\* the positions of `event` in a call's log
Positions(log, event) == {k \in 1..Len(log) : log[k] = event}

\* the delegate completed the call, once, with a response, and the
\* completion has reached the call: the wrapped callback was invoked, or
\* the handler of promise.then has run on the fulfilled promise (between
\* the settling of the delegate's promise and that job, the call has not
\* seen the completion and the span is as patchedInject left it)
CompletedWithResponse(c) ==
    \/ /\ c.style = "promise"
       /\ c.handled
       /\ c.outcome.kind = "fulfilled"
       /\ Truthy(c.outcome.value)
    \/ /\ c.style = "callback"
       /\ Len(c.delivered) = 1
       /\ ~Truthy(c.delivered[1][1])
       /\ Truthy(c.delivered[1][2])

\* the delegate completed the call, once, with an error, and the
\* completion has reached the call: the wrapped callback was invoked, or
\* the handler of promise.then has run on the rejected promise
CompletedWithError(c) ==
    \/ /\ c.style = "promise"
       /\ c.handled
       /\ c.outcome.kind = "rejected"
       /\ Truthy(c.outcome.value)
    \/ /\ c.style = "callback"
       /\ Len(c.delivered) = 1
       /\ Truthy(c.delivered[1][1])

\* the response the delegate completed the call with
ResponseOf(c) ==
    IF c.style = "promise" THEN c.outcome.value ELSE c.delivered[1][2]

\* the call started its span
Started(c) == Count(c.log, "startSpan") = 1

\* the url the caller supplied: the string argument, the string form of the
\* URL argument, or the url field of the options
SuppliedUrl(c) ==
    IF c.given.kind \in {"string", "URL"} THEN Str(c.given.href)
    ELSE c.given.url

\* the characters of a string
Chars(s) == {s[i] : i \in 1..Len(s)}

\* the position of the first `ch` in s, 0 when there is none
FirstIndex(s, ch) ==
    IF ch \in Chars(s)
    THEN CHOOSE i \in 1..Len(s) : s[i] = ch /\ \A j \in 1..(i - 1) : s[j] # ch
    ELSE 0

\* the part of s before its first `ch`: all of s when there is none
BeforeFirst(s, ch) ==
    IF ch \in Chars(s) THEN SubSeq(s, 1, FirstIndex(s, ch) - 1) ELSE s

\* the whole part of s after its first `ch`: empty when there is none
AfterFirst(s, ch) ==
    IF ch \in Chars(s) THEN SubSeq(s, FirstIndex(s, ch) + 1, Len(s)) ELSE <<>>

\* the host header of the request: host, or Host when there is no host
HostHeader(c) ==
    IF IsTruthy(c.given.headers.host) THEN c.given.headers.host
    ELSE c.given.headers.Host

\* the source of a conditional key is there in the request of call c
SourcePresent(c, key) ==
    LET url == IF IsTruthy(SuppliedUrl(c)) THEN SuppliedUrl(c).s ELSE <<"/">>
        headers == c.given.headers
    IN  CASE key = ATTR_URL_QUERY -> AfterFirst(url, "?") # <<>>
          [] key = ATTR_SERVER_ADDRESS -> IsTruthy(HostHeader(c))
          [] key = ATTR_SERVER_PORT ->
               /\ IsTruthy(HostHeader(c))
               /\ AfterFirst(HostHeader(c).s, ":") # <<>>
          [] key = ATTR_CLIENT_ADDRESS -> IsTruthy(c.given.remoteAddress)
          [] key = ATTR_USER_AGENT_ORIGINAL ->
               IsTruthy(headers.user_agent) \/ IsTruthy(headers.User_Agent)
          [] key = ATTR_NETWORK_PROTOCOL_VERSION ->
               IsTruthy(headers.http_version) \/ IsTruthy(headers.httpVersion)

\* the calls of _patch and _unpatch made so far
Installs == {installs[i] : i \in 1..Len(installs)}

\* a shape _patch supports: a callable, or an object that has the tag
\* Module and a callable default, its own or inherited
Supported(h, v) ==
    /\ v.t = "object"
    /\ \/ h[v.id].callable
       \/ /\ \E k \in 1..Len(Chain(h, v)) :
                 /\ h[Chain(h, v)[k]].tag = "Module"
                 /\ \A j \in 1..(k - 1) : h[Chain(h, v)[j]].tag = Absent
          /\ Get(h, v, "default").t = "object"
          /\ h[Get(h, v, "default").id].callable

\* the span of a call is as startSpan and the requestHook left it: no
\* completion has touched it
Unfinalized(c) ==
    /\ c.span.status = UNSET
    /\ c.span.message = Absent
    /\ c.span.exceptions = <<>>
    /\ c.span.ended = 0
    /\ ~HasAttribute(c.span, ATTR_HTTP_RESPONSE_STATUS_CODE)
    /\ ~HasAttribute(c.span, ATTR_ERROR_TYPE)
    /\ Count(c.log, "end") = 0
    /\ Count(c.log, "responseHook") = 0

\* the error the delegate completed the call with
ErrorOfCall(c) ==
    IF c.style = "promise" THEN c.outcome.value ELSE c.delivered[1][1]

\* what the call did after it invoked the delegate
AfterDelegate(c) ==
    LET k == CHOOSE i \in Positions(c.log, "delegate") : TRUE
    IN  SubSeq(c.log, k + 1, Len(c.log))

\* the position of `key` among the attributes of a span, in the order they
\* were set; 0 when it was never set
SetAt(span, key) ==
    IF HasAttribute(span, key)
    THEN CHOOSE i \in 1..Len(span.attributes) : span.attributes[i][1] = key
    ELSE 0

\* what the call did up to and including the invocation of the delegate
UpToDelegate(c) ==
    LET k == CHOOSE i \in Positions(c.log, "delegate") : TRUE
    IN  SubSeq(c.log, 1, k)

\* the delegate completed call c once and the completion has reached the
\* call (the wrapped callback was invoked, the handler of promise.then has
\* run): Ok(value) is a fulfilment or a callback with a falsy error,
\* Err(error) a rejection or a callback with an error, which a callback
\* can only tell by a truthy error
IsOk(c) ==
    \/ c.style = "promise" /\ c.handled /\ c.outcome.kind = "fulfilled"
    \/ c.style = "callback" /\ Len(c.delivered) = 1 /\ ~Truthy(c.delivered[1][1])

IsErr(c) ==
    \/ /\ c.style = "promise" /\ c.handled
       /\ c.outcome.kind = "rejected" /\ Truthy(c.outcome.value)
    \/ c.style = "callback" /\ Len(c.delivered) = 1 /\ Truthy(c.delivered[1][1])

\* the same request made in the same context in the other style, its
\* delegate completing it with the same outcome
Twin(c) ==
    LET other == IF c.style = "promise" THEN "callback" ELSE "promise"
        started == patchedInject(c.id, other, c.given, c.delegated, c.ambient,
                                 Self)
    IN  CASE c.style = "promise" /\ IsOk(c) ->
               wrappedCallback(started, Null, c.outcome.value, Self)
          [] c.style = "promise" /\ IsErr(c) ->
               wrappedCallback(started, c.outcome.value, Undefined, Self)
          [] c.style = "callback" /\ IsOk(c) ->
               fulfill([started EXCEPT
                            !.outcome = Settled("fulfilled", c.delivered[1][2])],
                       c.delivered[1][2], Self)
          [] c.style = "callback" /\ IsErr(c) ->
               reject([started EXCEPT
                           !.outcome = Settled("rejected", c.delivered[1][1])],
                      c.delivered[1][1])

----------------------------------------------------------------------------
(* Properties *)

\* C1: every call starts exactly one span, of kind SERVER, and by the time
\* the call has completed - the caller's callback was called, or the
\* promise the caller holds has settled - that span has been ended exactly
\* once, whatever the delegate completed the call with.
C1_OneSpanEndedOnce ==
    \A c \in Calls :
        /\ Count(c.log, "startSpan") = 1
        /\ c.span.kind = SERVER
        /\ (c.callbacks # <<>> \/ c.result.kind \in {"fulfilled", "rejected"}) =>
               /\ c.span.ended = 1
               /\ Count(c.log, "end") = 1

\* C2: when the delegate's promise rejects with an error E, nothing has
\* happened to the call until the rejection handler runs: the span is not
\* finalized and the caller's promise is pending. Once the handler has run,
\* the span is ended once with status ERROR, E's message as the status
\* message, E recorded as the one exception and, E having a non-empty
\* name, error.type = E.name, and the handler has returned a promise
\* rejected with that same E. The promise the caller holds never settles
\* any other way than rejected with E, and only after the handler has run.
C2_RejectionForwarded ==
    \A c \in Calls :
        (/\ c.style = "promise"
         /\ c.outcome.kind = "rejected"
         /\ Truthy(c.outcome.value)) =>
            LET E == c.outcome.value
            IN  /\ c.result \in {Pending, Settled("rejected", E)}
                /\ c.result # Pending => c.handled
                /\ ~c.handled =>
                       /\ Unfinalized(c)
                       /\ c.adopted = Pending
                /\ c.handled =>
                       /\ c.adopted = Settled("rejected", E)
                       /\ c.span.ended = 1
                       /\ Count(c.log, "end") = 1
                       /\ c.span.status = ERROR
                       /\ c.span.message = E.message
                       /\ c.span.exceptions = <<E>>
                       /\ HasAttribute(c.span, ATTR_ERROR_TYPE)
                       /\ E.name \notin {Absent, ""} =>
                              Attribute(c.span, ATTR_ERROR_TYPE) = E.name

\* the delegate's promise rejected with new CustomError("custom"), the
\* rejection handler finalized the span and the caller's promise rejected
\* with the same error
C2_Witness ==
    \E c \in Calls :
        /\ c.style = "promise"
        /\ c.outcome = Settled("rejected", ErrorOf("CustomError", "custom"))
        /\ c.handled
        /\ c.result = c.outcome
        /\ c.span.status = ERROR

\* C3: in the callback branch, each (error, response) the delegate passes
\* to the wrapped callback reaches the caller's callback exactly once,
\* unchanged and in order, after whatever finalization ran, also when the
\* responseHook throws.
C3_CallbackForwarded ==
    \A c \in Calls :
        c.style = "callback" =>
            /\ c.callbacks = c.delivered
            /\ Count(c.log, "callback") = Len(c.delivered)
            /\ Len(c.delivered) > 0 => c.log[Len(c.log)] = "callback"

\* the responseHook threw during the finalization of a response and the
\* caller's callback still got (null, response)
C3_Witness ==
    \E c \in Calls :
        /\ c.style = "callback"
        /\ responseHook = "throws"
        /\ c.delivered = <<<<Null, Response(200)>>>>
        /\ c.callbacks = c.delivered
        /\ Count(c.log, "responseHook") = 1

\* C4: in the callback branch the span is already ended when the caller's
\* callback starts running: every invocation of the caller's callback is
\* preceded by span.end.
C4_EndedBeforeCallback ==
    \A c \in Calls :
        c.style = "callback" =>
            \A k \in Positions(c.log, "callback") :
                \E j \in Positions(c.log, "end") : j < k

\* C5: in the promise branch the caller's promise settles the way the
\* delegate's promise settled, with the same value, whatever the value:
\* once both are settled they are settled alike.
C5_SettlesLikeDelegate ==
    \A c \in Calls :
        (c.style = "promise" /\ c.outcome # Pending /\ c.result # Pending) =>
            c.result = c.outcome

\* the same call, with the same delegate behaviour, made through an
\* instrumentation that has no hook configured
NoHooks == Instrumentation("none", "none")

WithoutHooks(c) ==
    LET started == patchedInject(c.id, c.style, c.given, c.delegated,
                                 c.ambient, NoHooks)
    IN  IF c.style = "promise"
        THEN fulfill([started EXCEPT !.outcome = c.outcome],
                     c.outcome.value, NoHooks)
        ELSE wrappedCallback(started, c.delivered[1][1], c.delivered[1][2],
                             NoHooks)

\* C6: with a requestHook or a responseHook that throws, a call the
\* delegate completes with a response gives the caller what the same call
\* gives with no hook configured, no exception reaches the caller, the span
\* has the same status - OK for a status below 400 - and is ended once.
C6_ThrowingHookChangesNothing ==
    \A c \in Calls :
        (/\ requestHook = "throws" \/ responseHook = "throws"
         /\ CompletedWithResponse(c)) =>
            LET plain == WithoutHooks(c)
            IN  /\ c.result = plain.result
                /\ c.callbacks = plain.callbacks
                /\ c.escaped = <<>>
                /\ c.span.status = plain.span.status
                /\ StatusCode(ResponseOf(c)) < 400 => c.span.status = OK
                /\ c.span.ended = 1

\* both hooks threw during a promise-style call that fulfilled with a 200
\* response; the caller's promise fulfilled with it and the span is OK
C6_Witness ==
    \E c \in Calls :
        /\ requestHook = "throws"
        /\ responseHook = "throws"
        /\ c.style = "promise"
        /\ c.outcome = Settled("fulfilled", Response(200))
        /\ Count(c.log, "diag.error") = 2
        /\ c.result = c.outcome
        /\ c.span.status = OK

\* requestHook ran exactly once, responseHook exactly once, in that order
HooksOnceInOrder(c) ==
    /\ Count(c.log, "requestHook") = 1
    /\ Count(c.log, "responseHook") = 1
    /\ \A j \in Positions(c.log, "requestHook"),
          k \in Positions(c.log, "responseHook") : j < k

\* C7: with both hooks configured every call, once the delegate has
\* completed it with a response or with an error, has run requestHook
\* exactly once and responseHook exactly once, in that order.
C7_HooksOncePerCall ==
    (requestHook # "none" /\ responseHook # "none") =>
        \A c \in Calls :
            (CompletedWithResponse(c) \/ CompletedWithError(c)) =>
                HooksOnceInOrder(c)

\* C7, amended: with both hooks configured, a call the delegate completes
\* with a response has run requestHook exactly once and then responseHook
\* exactly once, in either style, the responseHook not before the
\* completion has reached the call (in the promise style: not before the
\* fulfilment handler runs); a call the delegate completes with an error
\* has run requestHook once and responseHook not at all.
C7_HooksOncePerResponse ==
    (requestHook # "none" /\ responseHook # "none") =>
        \A c \in Calls :
            /\ CompletedWithResponse(c) => HooksOnceInOrder(c)
            /\ (c.style = "promise" /\ ~c.handled) =>
                   Count(c.log, "responseHook") = 0
            /\ CompletedWithError(c) =>
                   /\ Count(c.log, "requestHook") = 1
                   /\ Count(c.log, "responseHook") = 0

\* a callback-style call completed with a response, both hooks configured
\* and run
C7_Witness ==
    \E c \in Calls :
        /\ requestHook = "ok"
        /\ responseHook = "ok"
        /\ c.style = "callback"
        /\ CompletedWithResponse(c)
        /\ HooksOnceInOrder(c)

\* C8: after response finalization, with S the response's statusCode or
\* 200 when it has none: http.response.status_code = S; for S >= 400
\* error.type is the decimal string of S and the status is ERROR; for
\* S < 400 no error.type is set and the status is OK. Before it - the
\* delegate's promise fulfilled, the fulfilment handler not yet run - the
\* span has no status code and no status.
C8_StatusMapping ==
    \A c \in Calls :
        /\ (c.style = "promise" /\ c.outcome.kind = "fulfilled" /\ ~c.handled) =>
               Unfinalized(c)
        /\ CompletedWithResponse(c) =>
            LET response == ResponseOf(c)
                S == IF response.statusCode = 0 THEN 200
                     ELSE response.statusCode
            IN  /\ Attribute(c.span, ATTR_HTTP_RESPONSE_STATUS_CODE) = S
                /\ S >= 400 =>
                       /\ Attribute(c.span, ATTR_ERROR_TYPE) = ToString(S)
                       /\ S = 400 =>
                              Attribute(c.span, ATTR_ERROR_TYPE) = "400"
                       /\ c.span.status = ERROR
                /\ S < 400 =>
                       /\ ~HasAttribute(c.span, ATTR_ERROR_TYPE)
                       /\ c.span.status = OK

\* a response without statusCode was finalized as 200, OK
C8_Witness ==
    \E c \in Calls :
        /\ CompletedWithResponse(c)
        /\ ResponseOf(c) = Response(0)
        /\ Attribute(c.span, ATTR_HTTP_RESPONSE_STATUS_CODE) = 200
        /\ c.span.status = OK

\* C9: with headers in the request the span's parent is the span of the
\* context extracted from them on top of the ambient context - the span
\* the headers reference, when they reference one; without headers it is
\* the ambient context's span.
C9_ParentFromHeaders ==
    \A c \in Calls :
        /\ c.headers.present =>
               /\ c.span.parent = Extract(c.ambient, c.headers).span
               /\ c.headers.traceparent # NoSpan =>
                      c.span.parent = c.headers.traceparent
        /\ ~c.headers.present => c.span.parent = c.ambient.span

\* a call made inside the caller's span with headers that reference a
\* remote span: the call's span is a child of the remote span
C9_Witness ==
    \E c \in Calls :
        /\ c.ambient = Context("parent")
        /\ c.headers = Headers("remote")
        /\ c.span.parent = "remote"

\* C10: the delegate runs, in either branch, with the call's parent
\* context active and the call's own span set in it as the active span,
\* and the caller's active context after patchedInject returned is the one
\* it was before.
C10_DelegateInSpanContext ==
    \A c \in Calls :
        /\ c.delegated # "no" =>
               /\ c.delegateContext =
                      SetSpan(IF c.headers.present
                              THEN Extract(c.ambient, c.headers)
                              ELSE c.ambient, SpanId(c.id))
               /\ c.delegateContext.span = SpanId(c.id)
        /\ c.after = c.ambient
        /\ active = c.ambient

\* a callback-style call whose delegate saw the call's span as the active
\* span while the caller's context is its own span again
C10_Witness ==
    \E c \in Calls :
        /\ c.style = "callback"
        /\ c.delegated = "pending"
        /\ c.delegateContext.span = SpanId(c.id)
        /\ active = Context("parent")

\* C11: per call at most one completion wrapper is attached - the callback
\* wrapper when a function callback was supplied, the promise handlers
\* otherwise, never both - and the span is finalized at most once: it is
\* ended at most once, whatever the delegate does with the callback.
C11_FinalizedAtMostOnce ==
    \A c \in Calls :
        /\ Len(c.wrappers) <= 1
        /\ (c.style = "callback" /\ c.delegated # "no") =>
               c.wrappers = <<"wrapCallback">>
        /\ c.style = "promise" => c.wrappers \in {<<>>, <<"wrapPromise">>}
        /\ Count(c.log, "end") <= 1
        /\ c.span.ended <= 1

\* C12: the name of a started span is its request-method attribute, a
\* space, and the url as it was supplied, query included ("/" when none was
\* supplied); "/test?foo=bar" with no method is named "GET /test?foo=bar".
C12_NameIsMethodAndUrl ==
    \A c \in Calls :
        Started(c) =>
            LET method == Attribute(c.span, ATTR_HTTP_REQUEST_METHOD).s
                url == IF IsTruthy(SuppliedUrl(c)) THEN SuppliedUrl(c).s
                       ELSE <<"/">>
            IN  /\ c.span.name = method \o <<" ">> \o url
                /\ (url = <<"/", "t", "e", "s", "t", "?", "f", "o", "o", "=", "b", "a", "r">> /\ ~IsTruthy(c.given.method)) =>
                       c.span.name = <<"G", "E", "T", " ", "/", "t", "e", "s", "t", "?", "f", "o", "o", "=", "b", "a", "r">>

\* inject(dispatch, '/test?foo=bar') started a span named with the query
C12_Witness ==
    \E c \in Calls :
        /\ c.given = Bare("string", <<"/", "t", "e", "s", "t", "?", "f", "o", "o", "=", "b", "a", "r">>)
        /\ Started(c)
        /\ c.span.name = <<"G", "E", "T", " ", "/", "t", "e", "s", "t", "?", "f", "o", "o", "=", "b", "a", "r">>
        /\ Attribute(c.span, ATTR_URL_PATH) = Str(<<"/", "t", "e", "s", "t">>)

\* C13: the name of a started span has no query string in it: it is the
\* method, a space, and the path of the url ("/api/search?q=test&limit=10"
\* with GET is named "GET /api/search").
C13_NameWithoutQuery ==
    \A c \in Calls :
        Started(c) =>
            /\ "?" \notin Chars(c.span.name)
            /\ c.span.name =
                   Attribute(c.span, ATTR_HTTP_REQUEST_METHOD).s \o <<" ">>
                       \o Attribute(c.span, ATTR_URL_PATH).s
            /\ SuppliedUrl(c) = Str(<<"/", "a", "p", "i", "/", "s", "e", "a", "r", "c", "h", "?", "q", "=", "t", "e", "s", "t", "&", "l", "i", "m", "i", "t", "=", "1", "0">>) =>
                   c.span.name = <<"G", "E", "T", " ", "/", "a", "p", "i", "/", "s", "e", "a", "r", "c", "h">>

\* C14: for the url u of a started span, url.full = u, url.path is the part
\* of u before its first "?", url.query is the whole part of u after its
\* first "?", set exactly when that part is not empty; url.path has no "?"
\* in it, and when url.query is set, url.path + "?" + url.query = url.full.
C14_UrlAttributes ==
    \A c \in Calls :
        Started(c) =>
            LET u == IF IsTruthy(SuppliedUrl(c)) THEN SuppliedUrl(c).s
                     ELSE <<"/">>
                path == Attribute(c.span, ATTR_URL_PATH)
            IN  /\ Attribute(c.span, ATTR_URL_FULL) = Str(u)
                /\ path = Str(BeforeFirst(u, "?"))
                /\ "?" \notin Chars(path.s)
                /\ HasAttribute(c.span, ATTR_URL_QUERY) <=>
                       AfterFirst(u, "?") # <<>>
                /\ HasAttribute(c.span, ATTR_URL_QUERY) =>
                       LET query == Attribute(c.span, ATTR_URL_QUERY)
                       IN  /\ query = Str(AfterFirst(u, "?"))
                           /\ path.s \o <<"?">> \o query.s = u

\* C15: with a host header h, server.address is the part of h before its
\* first colon; server.port is set only when the part after the first colon
\* is not empty and is then what parseInt gives for that whole part, and it
\* is set, to a number, whenever that part starts with a digit; without a
\* colon only server.address is set ("example.com:8080" gives
\* "example.com" and 8080); the number is the double nearest to the digits
\* ("a:9007199254740993" gives 9007199254740992).
C15_HostSplit ==
    \A c \in Calls :
        (Started(c) /\ IsTruthy(HostHeader(c))) =>
            LET h == HostHeader(c).s
                rest == AfterFirst(h, ":")
                port == Attribute(c.span, ATTR_SERVER_PORT)
            IN  /\ Attribute(c.span, ATTR_SERVER_ADDRESS) =
                       Str(BeforeFirst(h, ":"))
                /\ HasAttribute(c.span, ATTR_SERVER_PORT) =>
                       /\ rest # <<>>
                       /\ port = ParseInt(rest)
                /\ (rest # <<>> /\ IsDigit(Head(rest))) =>
                       /\ HasAttribute(c.span, ATTR_SERVER_PORT)
                       /\ port.t = "number"
                /\ ":" \notin Chars(h) =>
                       ~HasAttribute(c.span, ATTR_SERVER_PORT)
                /\ h = <<"e", "x", "a", "m", "p", "l", "e", ".", "c", "o", "m", ":", "8", "0", "8", "0">> =>
                       /\ Attribute(c.span, ATTR_SERVER_ADDRESS) =
                              Str(<<"e", "x", "a", "m", "p", "l", "e", ".", "c", "o", "m">>)
                       /\ port = Number(8080)
                /\ h = <<"a", ":", "9", "0", "0", "7", "1", "9", "9", "2", "5", "4", "7", "4", "0", "9", "9", "3">> =>
                       port = [t |-> "number",
                               s |-> <<"9", "0", "0", "7", "1", "9", "9", "2", "5", "4", "7", "4", "0", "9", "9", "2">>,
                               n |-> 1]

\* a Host header with two colons, "a:80:90": address "a", port 80
C15_Witness ==
    \E c \in Calls :
        /\ Started(c)
        /\ c.given.headers.Host = Str(<<"a", ":", "8", "0", ":", "9", "0">>)
        /\ Attribute(c.span, ATTR_SERVER_ADDRESS) = Str(<<"a">>)
        /\ Attribute(c.span, ATTR_SERVER_PORT) = Number(80)

\* C16: the attributes a span is started with always hold
\* http.request.method, url.path and url.scheme = "http"; a conditional key
\* is among them only when its source is in the request, and then with a
\* value that is not undefined; user_agent.original and server.address are
\* read from the lower-case header name or else from the capitalized one;
\* without headers there is no server.address.
C16_StartAttributes ==
    \A c \in Calls :
        Started(c) =>
            /\ HasAttribute(c.span, ATTR_HTTP_REQUEST_METHOD)
            /\ HasAttribute(c.span, ATTR_URL_PATH)
            /\ Attribute(c.span, ATTR_URL_PATH).t = "string"
            /\ HasAttribute(c.span, ATTR_URL_SCHEME)
            /\ Attribute(c.span, ATTR_URL_SCHEME) = Str(<<"h", "t", "t", "p">>)
            /\ \A key \in ConditionalKeys :
                   HasAttribute(c.span, key) =>
                       /\ SourcePresent(c, key)
                       /\ Attribute(c.span, key).t # "undefined"
            /\ \A i, j \in 1..Len(c.span.attributes) :
                   c.span.attributes[i][1] = c.span.attributes[j][1] => i = j
            /\ IsTruthy(c.given.headers.user_agent) =>
                   Attribute(c.span, ATTR_USER_AGENT_ORIGINAL) =
                       c.given.headers.user_agent
            /\ (/\ ~IsTruthy(c.given.headers.user_agent)
                /\ IsTruthy(c.given.headers.User_Agent)) =>
                   Attribute(c.span, ATTR_USER_AGENT_ORIGINAL) =
                       c.given.headers.User_Agent
            /\ IsTruthy(HostHeader(c)) =>
                   HasAttribute(c.span, ATTR_SERVER_ADDRESS)
            /\ ~c.given.headers.present =>
                   ~HasAttribute(c.span, ATTR_SERVER_ADDRESS)

\* a request with the capitalized User-Agent header only, no host and no
\* remoteAddress: user_agent.original is set, the other conditional keys
\* are not
C16_Witness ==
    \E c \in Calls :
        /\ Started(c)
        /\ ~IsTruthy(c.given.headers.user_agent)
        /\ c.given.headers.User_Agent = Str(<<"c", "u", "r", "l">>)
        /\ Attribute(c.span, ATTR_USER_AGENT_ORIGINAL) = Str(<<"c", "u", "r", "l">>)
        /\ \A key \in ConditionalKeys \ {ATTR_USER_AGENT_ORIGINAL} :
               ~HasAttribute(c.span, key)

\* C17: a string or URL second argument becomes a descriptor with the url
\* field alone, the argument's string form; an options object is taken
\* field by field; the method is "GET" when none is given and is upper case
\* in every span; the url is "/" when none is given.
C17_Normalization ==
    \A c \in Calls :
        /\ (requestHook # "assigns" /\ c.delegated # "assigns") =>
               /\ c.opts.kind = "object"
               /\ c.given.kind \in {"string", "URL"} =>
                      /\ c.opts.url = Str(c.given.href)
                      /\ \A field \in Fields \ {"url", "headers"} :
                             c.opts[field] = NotGiven
                      /\ ~c.opts.headers.present
               /\ c.given.kind \notin {"string", "URL"} =>
                      \A field \in Fields : c.opts[field] = c.given[field]
        /\ Started(c) =>
               LET method == Attribute(c.span, ATTR_HTTP_REQUEST_METHOD)
               IN  /\ \A ch \in Chars(method.s) : Upper(ch) = <<ch>>
                   /\ \A i \in 1..(Len(method.s) - 1) :
                          UpperPair(method.s[i], method.s[i + 1]) =
                              <<method.s[i], method.s[i + 1]>>
                   /\ ~IsTruthy(c.given.method) => method = Str(<<"G", "E", "T">>)
                   /\ IsTruthy(c.given.method) =>
                          method = Str(ToUpperCase(c.given.method.s))
                   /\ c.given.method = Str(<<"P", "u", "t">>) => method = Str(<<"P", "U", "T">>)
                   /\ c.given.method = Str(<<"u0101", "uFB03", "uD801", "uDC28">>) =>
                          method = Str(<<"u0100", "F", "F", "I", "uD801", "uDC00">>)
                   /\ ~IsTruthy(SuppliedUrl(c)) =>
                          Attribute(c.span, ATTR_URL_FULL) = Str(<<"/">>)

\* inject(dispatch, new URL('http://localhost/test?x=1')): the descriptor is
\* { url: 'http://localhost/test?x=1' } and the method GET
C17_Witness ==
    \E c \in Calls :
        /\ c.given.kind = "URL"
        /\ Started(c)
        /\ c.opts.url = Str(<<"h", "t", "t", "p", ":", "/", "/", "l", "o", "c", "a", "l", "h", "o", "s", "t", "/", "t", "e", "s", "t", "?", "x", "=", "1">>)
        /\ c.opts.method = NotGiven
        /\ Attribute(c.span, ATTR_HTTP_REQUEST_METHOD) = Str(<<"G", "E", "T">>)
        /\ Attribute(c.span, ATTR_URL_FULL) = c.opts.url

\* C18: after a call the object the caller passed as options has the
\* top-level fields and the values it had before the call, also when the
\* requestHook or the delegate assigned and deleted fields of the options
\* they were given.
C18_OptionsNotMutated ==
    \A c \in Calls :
        /\ \A field \in Fields : c.options[field] = c.given[field]
        /\ c.options = c.given

\* the requestHook and the delegate both assigned to the options they
\* received - the method replaced, the url deleted, a payload added - and
\* the caller's object still has its url and no payload
C18_Witness ==
    \E c \in Calls :
        /\ requestHook = "assigns"
        /\ c.delegated = "assigns"
        /\ c.given.kind = "object"
        /\ IsTruthy(c.given.url)
        /\ c.opts.method = Str(PATCH)
        /\ c.opts.url = NotGiven
        /\ c.opts.payload = Str(BODY)
        /\ c.options.url = c.given.url
        /\ c.options.payload = NotGiven

\* C19: for every request descriptor, also one whose url, method or host
\* header is no string, the interceptor raises nothing of its own: the call
\* starts its span and reaches the delegate, and what escapes to the caller
\* is only what the delegate threw.
C19_ToleratesMalformed ==
    \A c \in Calls :
        /\ Started(c)
        /\ c.delegated # "no"
        /\ c.delegated # "throws" =>
               /\ c.escaped = <<>>
               /\ c.result.kind # "thrown"

\* C20: _patch called with a value of an unsupported shape - null,
\* undefined, a primitive, a plain object, a namespace without a function
\* default - returns that value, leaves every object as it was, calls
\* diag.warn once and does not throw.
C20_UnsupportedIsNoOp ==
    \A op \in Installs :
        (op.op = "patch" /\ ~Supported(op.before, op.exports)) =>
            /\ op.returned = op.exports
            /\ op.after = op.before
            /\ op.warnings = 1
            /\ ~op.threw

\* _patch was called with a namespace whose default is a plain object: the
\* namespace came back as it was, with one warning
C20_Witness ==
    \E op \in Installs :
        /\ op.op = "patch"
        /\ op.exports = Ref(5)
        /\ ~Supported(op.before, op.exports)
        /\ op.returned = Ref(5)
        /\ op.after = LightMyRequest
        /\ op.warnings = 1

\* C21: after a _patch of a function that succeeded (it did not throw),
\* the wrapper it returns is a new function that has every enumerable
\* property of the original with the original's value, except default and
\* inject, which are the wrapper itself: the returned value, its default
\* and its inject are all the patched function and none of them is the
\* function that was passed.
C21_WrapperExposesOriginal ==
    \A op \in Installs :
        (op.op = "patch" /\ IsFunction(op.before, op.exports) /\ ~op.threw) =>
            /\ op.returned # op.exports
            /\ IsFunction(op.after, op.returned)
            /\ op.after[op.returned.id].wraps = op.exports
            /\ \A i \in 1..Len(op.before[op.exports.id].props) :
                   LET key == op.before[op.exports.id].props[i][1]
                       value == op.before[op.exports.id].props[i][2]
                   IN  Get(op.after, op.returned, key) =
                           IF key \in {"default", "inject"}
                           THEN op.returned ELSE value
            /\ Get(op.after, op.returned, "default") = op.returned
            /\ Get(op.after, op.returned, "inject") = op.returned
            /\ op.after[op.exports.id] = op.before[op.exports.id]

\* _patch was called with the inject function of light-my-request, whose
\* default and inject are itself: the wrapper has its isInjection, and its
\* default and inject are the wrapper
C21_Witness ==
    \E op \in Installs :
        /\ op.op = "patch"
        /\ op.exports = Ref(1)
        /\ op.before = LightMyRequest
        /\ Get(op.before, op.exports, "default") = Ref(1)
        /\ op.returned = Ref(Len(LightMyRequest) + 1)
        /\ Get(op.after, op.returned, "isInjection") = Ref(2)
        /\ Get(op.after, op.returned, "default") = op.returned
        /\ Get(op.after, op.returned, "inject") = op.returned

\* C22: for every function m, _patch(m) returns a wrapper, and _unpatch of
\* that wrapper returns m itself; when m is the function of the module, no
\* wrapper, a call through the returned value starts no span.
C22_UnpatchOfPatchIsIdentity ==
    /\ \A op \in Installs :
           (op.op = "patch" /\ IsFunction(op.before, op.exports)) =>
               /\ ~op.threw
               /\ _unpatch(op.after, op.returned).returned = op.exports
    /\ \A i \in 1..Len(installs) : \A j \in (i + 1)..Len(installs) :
           (/\ installs[i].op = "patch"
            /\ IsFunction(installs[i].before, installs[i].exports)
            /\ ~installs[i].threw
            /\ installs[j].op = "unpatch"
            /\ installs[j].exports = installs[i].returned) =>
               /\ ~installs[j].threw
               /\ installs[j].returned = installs[i].exports
               /\ installs[j].after = installs[j].before
               /\ SpansStarted(installs[i].before, installs[i].exports) = 0 =>
                      SpansStarted(installs[j].after, installs[j].returned) = 0

\* the inject function was patched, a call through the wrapper starts one
\* span, and _unpatch of the wrapper returned the inject function
C22_Witness ==
    /\ Len(installs) = 2
    /\ installs[1].op = "patch"
    /\ installs[1].exports = Ref(1)
    /\ SpansStarted(installs[1].after, installs[1].returned) = 1
    /\ installs[2].op = "unpatch"
    /\ installs[2].exports = installs[1].returned
    /\ installs[2].returned = Ref(1)
    /\ SpansStarted(heap, installs[2].returned) = 0

\* C23: _unpatch of a value that is no wrapper made by _patch - null,
\* undefined, a primitive, a plain object, a function never patched -
\* returns that value and does not throw.
C23_UnpatchOfUnwrappedIsInput ==
    \A op \in Installs :
        (/\ op.op = "unpatch"
         /\ ~(IsObject(op.exports) /\ IsObject(op.before[op.exports.id].original))) =>
            /\ ~op.threw
            /\ op.returned = op.exports
            /\ op.after = op.before

\* C24: when _patch has been called any number of times with the module
\* itself, of a supported shape, the function each call returns - the one
\* the module then publishes - starts exactly one span per call, and one
\* _unpatch of it returns a function that starts none.
C24_InstallTwiceDoesNotStack ==
    (\A op \in Installs : op.op = "patch" /\ op.exports = moduleExports) =>
        \A op \in Installs :
            (Supported(op.before, op.exports) /\ ~op.threw) =>
                /\ SpansStarted(op.after, op.returned) = 1
                /\ SpansStarted(op.after, _unpatch(op.after, op.returned).returned) = 0

\* C25: with several calls in flight and their completions in any order,
\* each call has started one span, its own, and normalized its own copy of
\* the options, and what has happened to its span is what its own
\* completion does and nothing else: while no completion has reached the
\* call - its callback was not invoked, the handler on its promise has not
\* run, the promise settled or not - the span is as the start left it,
\* whatever the other calls went through; a handler runs only on a call
\* whose own promise has settled; a call completed once with a response
\* has the status code and the status of that response, no exception, and
\* has ended once; a call completed once with an error has that error as
\* its one exception and message, status ERROR, no status code, and has
\* ended once.
C25_CallsAreIndependent ==
    /\ \A i \in 1..Len(calls) :
           LET c == calls[i]
               reached == IF c.style = "callback" THEN c.delivered # <<>>
                          ELSE c.handled
           IN  /\ c.id = i
               /\ Count(c.log, "startSpan") = 1
               /\ c.delegateContext.span = SpanId(i)
               /\ ~c.shared
               /\ c.style = "callback" => ~c.handled /\ c.outcome = Pending
               /\ c.style = "promise" => c.delivered = <<>>
               /\ c.handled => c.outcome # Pending
               /\ ~reached =>
                      /\ Unfinalized(c)
                      /\ c.callbacks = <<>>
                      /\ (c.style = "promise" /\ c.delegated = "pending") =>
                             c.result = Pending
               /\ CompletedWithResponse(c) =>
                      LET response == ResponseOf(c)
                          S == IF response.statusCode = 0 THEN 200
                               ELSE response.statusCode
                      IN  /\ Attribute(c.span, ATTR_HTTP_RESPONSE_STATUS_CODE) = S
                          /\ c.span.status = IF S >= 400 THEN ERROR ELSE OK
                          /\ c.span.exceptions = <<>>
                          /\ c.span.ended = 1
                          /\ Count(c.log, "end") = 1
               /\ CompletedWithError(c) =>
                      /\ c.span.exceptions = <<ErrorOfCall(c)>>
                      /\ c.span.status = ERROR
                      /\ c.span.message = ErrorOfCall(c).message
                      /\ ~HasAttribute(c.span, ATTR_HTTP_RESPONSE_STATUS_CODE)
                      /\ c.span.ended = 1
                      /\ Count(c.log, "end") = 1
    /\ \A i \in 1..Len(calls) : \A j \in 1..Len(calls) :
           i # j => calls[i].delegateContext.span # calls[j].delegateContext.span

\* two calls were in flight and both are completed, each its own way: the
\* first by its callback with a 200 response, its span OK, the second by
\* the fulfilment of its promise with a 500 response, its span ERROR
C25_Witness ==
    /\ Len(calls) >= 2
    /\ calls[1].style = "callback"
    /\ calls[1].delivered = <<<<Null, Response(200)>>>>
    /\ calls[1].span.status = OK
    /\ calls[1].span.ended = 1
    /\ calls[2].style = "promise"
    /\ calls[2].outcome = Settled("fulfilled", Response(500))
    /\ calls[2].handled
    /\ calls[2].span.status = ERROR
    /\ calls[2].span.ended = 1

\* C26: when the delegate completes a call with an error, the span records
\* the exception, gets error.type - the error's name, else the name of its
\* constructor, else "Error", an empty name counting as none - and status
\* ERROR with the error's message, and is ended, in this order and with
\* nothing after the end; the responseHook is not called.
C26_ErrorFinalization ==
    \A c \in Calls :
        CompletedWithError(c) =>
            LET error == ErrorOfCall(c)
            IN  /\ AfterDelegate(c) =
                       <<"recordException", "setAttribute", "setStatus", "end">>
                       \o (IF c.style = "callback" THEN <<"callback">> ELSE <<>>)
                /\ c.span.exceptions = <<error>>
                /\ Attribute(c.span, ATTR_ERROR_TYPE) =
                       IF error.name \notin {Absent, ""} THEN error.name
                       ELSE IF error.ctor \notin {Absent, ""} THEN error.ctor
                       ELSE "Error"
                /\ Attribute(c.span, ATTR_ERROR_TYPE) # ""
                /\ c.span.status = ERROR
                /\ c.span.message = error.message
                /\ c.span.ended = 1
                /\ Count(c.log, "responseHook") = 0
                /\ ~HasAttribute(c.span, ATTR_HTTP_RESPONSE_STATUS_CODE)

\* a responseHook is configured and the delegate's promise rejected with a
\* CustomError: the span has error.type CustomError, status ERROR with the
\* message, is ended, and the hook was not called
C26_Witness ==
    \E c \in Calls :
        /\ responseHook = "ok"
        /\ c.style = "promise"
        /\ c.outcome = Settled("rejected", ErrorOf("CustomError", "custom"))
        /\ CompletedWithError(c)
        /\ Attribute(c.span, ATTR_ERROR_TYPE) = "CustomError"
        /\ c.span.status = ERROR
        /\ c.span.message = "custom"
        /\ c.span.ended = 1
        /\ Count(c.log, "responseHook") = 0

\* C27: when the delegate completes a call with a response, the span gets
\* the status-code attribute, then error.type when the status is 400 or
\* more, then its status, then the responseHook is called when one is
\* configured, then the span is ended; the end is reached also when the
\* responseHook throws, and the status is then the one set before the hook.
C27_ResponseFinalizationOrder ==
    \A c \in Calls :
        CompletedWithResponse(c) =>
            LET statusCode == StatusCode(ResponseOf(c))
            IN  /\ AfterDelegate(c) =
                       <<"setAttribute">>
                       \o (IF statusCode >= 400 THEN <<"setAttribute">> ELSE <<>>)
                       \o <<"setStatus">>
                       \o (CASE responseHook = "ok" ->
                                    <<"responseHook", "setAttribute">>
                             [] responseHook = "throws" ->
                                    <<"responseHook", "diag.error">>
                             [] OTHER -> <<>>)
                       \o <<"end">>
                       \o (IF c.style = "callback" THEN <<"callback">> ELSE <<>>)
                /\ SetAt(c.span, ATTR_HTTP_RESPONSE_STATUS_CODE) > 0
                /\ statusCode >= 400 =>
                       SetAt(c.span, ATTR_ERROR_TYPE) >
                           SetAt(c.span, ATTR_HTTP_RESPONSE_STATUS_CODE)
                /\ statusCode < 400 => SetAt(c.span, ATTR_ERROR_TYPE) = 0
                /\ responseHook = "ok" =>
                       SetAt(c.span, "custom.response") >
                           SetAt(c.span, ATTR_HTTP_RESPONSE_STATUS_CODE)
                /\ c.span.status = (IF statusCode >= 400 THEN ERROR ELSE OK)
                /\ c.span.ended = 1

\* the responseHook threw on the 500 response a promise fulfilled with: the
\* failure was logged after the status was set, and the span was ended with
\* status ERROR and error.type
C27_Witness ==
    \E c \in Calls :
        /\ responseHook = "throws"
        /\ c.style = "promise"
        /\ c.outcome = Settled("fulfilled", Response(500))
        /\ AfterDelegate(c) = <<"setAttribute", "setAttribute", "setStatus",
                                "responseHook", "diag.error", "end">>
        /\ c.span.status = ERROR
        /\ c.span.ended = 1

\* C28: every call starts its span, then calls the requestHook when one is
\* configured, then invokes the delegate, exactly once; a requestHook that
\* throws is caught and logged, the delegate is still invoked once, the
\* exception does not reach the caller and the span gets no status from it.
C28_HookThenDelegate ==
    \A c \in Calls :
        /\ Count(c.log, "delegate") = 1
        /\ UpToDelegate(c) =
               <<"startSpan">>
               \o (CASE requestHook = "ok" -> <<"requestHook", "setAttribute">>
                     [] requestHook = "throws" -> <<"requestHook", "diag.error">>
                     [] OTHER -> <<>>)
               \o <<"delegate">>
        /\ \A k \in 1..Len(c.escaped) : c.escaped[k] # HookError
        /\ c.result # Settled("thrown", HookError)
        /\ c.delegated # "throws" => c.escaped = <<>>
        /\ AfterDelegate(c) = <<>> =>
               /\ c.span.status = UNSET
               /\ c.span.message = Absent
               /\ c.span.exceptions = <<>>
               /\ c.span.ended = 0

\* the requestHook threw in a call with a callback: the failure was logged,
\* the delegate was invoked once and holds the callback, nothing reached
\* the caller and the span is open with status UNSET
C28_Witness ==
    \E c \in Calls :
        /\ requestHook = "throws"
        /\ c.style = "callback"
        /\ c.log = <<"startSpan", "requestHook", "diag.error", "delegate">>
        /\ c.delegated = "pending"
        /\ c.escaped = <<>>
        /\ c.span.status = UNSET

\* C29: one invocation of the wrapped callback with (error, response) takes
\* the error path when the error is truthy, also when a response came with
\* it - the response path and the responseHook do not run - and the
\* response path when the error is falsy and the response truthy; it never
\* takes both.
C29_CallbackPathByError ==
    \A c \in Calls :
        (c.style = "callback" /\ Len(c.delivered) = 1) =>
            LET error == c.delivered[1][1]
                response == c.delivered[1][2]
                errorPath == Count(c.log, "recordException") = 1
                responsePath == HasAttribute(c.span, ATTR_HTTP_RESPONSE_STATUS_CODE)
            IN  /\ Truthy(error) =>
                       /\ errorPath
                       /\ ~responsePath
                       /\ Count(c.log, "responseHook") = 0
                       /\ c.span.status = ERROR
                       /\ c.span.exceptions = <<error>>
                /\ (~Truthy(error) /\ Truthy(response)) =>
                       /\ responsePath
                       /\ ~errorPath
                       /\ c.span.exceptions = <<>>
                       /\ Attribute(c.span, ATTR_HTTP_RESPONSE_STATUS_CODE) =
                              StatusCode(response)
                       /\ Count(c.log, "responseHook") =
                              (IF responseHook = "none" THEN 0 ELSE 1)
                /\ ~(errorPath /\ responsePath)
                /\ Count(c.log, "end") <= 1
                /\ c.callbacks = <<<<error, response>>>>

\* the delegate invoked the callback with a CustomError and a 200 response
\* while a responseHook is configured: the span took the error path, has no
\* status code, and the hook did not run
C29_Witness ==
    \E c \in Calls :
        /\ responseHook = "ok"
        /\ c.style = "callback"
        /\ c.delivered = <<<<ErrorOf("CustomError", "custom"), Response(200)>>>>
        /\ c.span.status = ERROR
        /\ ~HasAttribute(c.span, ATTR_HTTP_RESPONSE_STATUS_CODE)
        /\ Count(c.log, "responseHook") = 0
        /\ c.span.ended = 1

\* C30: in the promise branch, when the delegate returns a value that is
\* no thenable - an object without then, or undefined - the caller gets
\* that value itself and the call does nothing more: no handler is
\* attached, the span gets no status, no attribute beyond those of its
\* start and the requestHook, and no end.
C30_NonThenablePassedThrough ==
    \A c \in Calls :
        (c.style = "promise" /\ c.delegated \in {"value", "undefined"}) =>
            /\ c.result = Settled("returned",
                                  IF c.delegated = "value" THEN NotThenable
                                  ELSE Undefined)
            /\ c.wrappers = <<>>
            /\ AfterDelegate(c) = <<>>
            /\ c.escaped = <<>>
            /\ c.outcome = Pending
            /\ c.span.status = UNSET
            /\ c.span.exceptions = <<>>
            /\ ~HasAttribute(c.span, ATTR_HTTP_RESPONSE_STATUS_CODE)
            /\ ~HasAttribute(c.span, ATTR_ERROR_TYPE)
            /\ c.span.ended = 0

\* a call without callback whose delegate returned a plain object: the
\* caller got the object, the span was started and is neither finalized
\* nor ended
C30_Witness ==
    \E c \in Calls :
        /\ c.style = "promise"
        /\ c.delegated = "value"
        /\ Started(c)
        /\ c.result = Settled("returned", NotThenable)
        /\ c.wrappers = <<>>
        /\ c.span.status = UNSET
        /\ c.span.ended = 0

\* C31: a call that has left by any exit path - the delegate completed it
\* with a response or with an error, or the delegate threw from its
\* invocation, before a callback or a promise exists - has its span
\* finalized exactly once: a status set and the span ended once.
C31_FinalizedOnEveryExit ==
    \A c \in Calls :
        (/\ Started(c)
         /\ \/ CompletedWithResponse(c)
            \/ CompletedWithError(c)
            \/ c.delegated = "throws") =>
            /\ c.span.status # UNSET
            /\ c.span.ended = 1

\* C32: a call the delegate completed with Ok(response) or Err(error) has
\* the span - attributes, status, message, recorded exceptions, end count -
\* and the number of responseHook calls of the same request completed with
\* the same outcome in the other style, callback for promise and promise
\* for callback.
C32_BranchesFinalizeAlike ==
    \A c \in Calls :
        (Started(c) /\ (IsOk(c) \/ IsErr(c))) =>
            LET twin == Twin(c)
            IN  /\ twin.style # c.style
                /\ c.span = twin.span
                /\ Count(c.log, "responseHook") = Count(twin.log, "responseHook")
                /\ Count(c.log, "end") = Count(twin.log, "end")
                /\ Truthy(IF IsOk(c) THEN ResponseOf(c) ELSE ErrorOfCall(c)) =>
                       c.span.ended = 1

\* a responseHook is configured and a promise fulfilled with a 500
\* response: the span is ended with status ERROR and the hook's attribute,
\* as is the span of the same call completed through the callback
C32_Witness ==
    \E c \in Calls :
        /\ responseHook = "ok"
        /\ c.style = "promise"
        /\ c.outcome = Settled("fulfilled", Response(500))
        /\ c.span.status = ERROR
        /\ c.span.ended = 1
        /\ HasAttribute(c.span, "custom.response")
        /\ Twin(c).style = "callback"
        /\ Twin(c).callbacks = <<<<Null, Response(500)>>>>
        /\ Twin(c).span = c.span

\* C33: the delegate is called with the dispatch target and the normalized
\* options, followed by the wrapping callback in the callback branch and by
\* nothing in the promise branch; the options are the object the
\* requestHook was handed, so they carry what the hook assigned, while the
\* span's name and start attributes are those of the options before the
\* hook.
C33_DelegateArguments ==
    \A c \in Calls :
        (Started(c) /\ c.delegated # "no") =>
            LET normalized == Normalize(c.given)
            IN  /\ c.arguments =
                       IF c.style = "callback"
                       THEN <<"dispatchFunc", "opts", "wrappedCallback">>
                       ELSE <<"dispatchFunc", "opts">>
                /\ c.style = "callback" => c.wrappers = <<"wrapCallback">>
                /\ c.delegated = "pending" =>
                       c.opts = IF requestHook = "assigns"
                                THEN [normalized EXCEPT
                                          !.method = Str(PATCH),
                                          !.remoteAddress = NotGiven,
                                          !.payload = Str(BODY)]
                                ELSE normalized
                /\ c.span.name = SpanName(normalized)
                /\ c.span.attributes = StartAttributes(normalized)

\* the requestHook assigned method PATCH and a payload to the options of a
\* GET request with a callback: the delegate got them with the wrapping
\* callback, and the span is still named and attributed GET
C33_Witness ==
    \E c \in Calls :
        /\ requestHook = "assigns"
        /\ c.style = "callback"
        /\ c.delegated = "pending"
        /\ c.given.kind = "object"
        /\ c.given.method = Str(GET)
        /\ c.opts.method = Str(PATCH)
        /\ c.opts.payload = Str(BODY)
        /\ c.arguments = <<"dispatchFunc", "opts", "wrappedCallback">>
        /\ Attribute(c.span, ATTR_HTTP_REQUEST_METHOD) = Str(GET)
        /\ SubSeq(c.span.name, 1, 3) = GET

\* C34: however many times the delegate invokes the callback it was given,
\* the span of the call is ended at most once, its status is set at most
\* once and the responseHook runs at most once: only the first invocation
\* finalizes.
C34_SecondCallbackDoesNotFinalize ==
    \A c \in Calls :
        c.style = "callback" =>
            /\ c.span.ended <= 1
            /\ Count(c.log, "setStatus") <= 1
            /\ Count(c.log, "responseHook") <= 1
            /\ Len(c.span.exceptions) <= 1

\* C35: for a Module-tagged namespace ns whose default is a function,
\* _unpatch undoes _patch: after _patch(ns) and then _unpatch(ns) the
\* default of ns is the function it was before, and _unpatch of the wrapper
\* that _patch(ns) returned returns that function.
C35_NamespaceUnpatchRestores ==
    \A i \in 1..Len(installs) :
        (/\ installs[i].op = "patch"
         /\ Supported(installs[i].before, installs[i].exports)
         /\ ~IsFunction(installs[i].before, installs[i].exports)
         /\ ~installs[i].threw) =>
            LET ns == installs[i].exports
                original == Get(installs[i].before, ns, "default")
            IN  /\ _unpatch(installs[i].after, installs[i].returned).returned
                       = original
                /\ (/\ i < Len(installs)
                    /\ installs[i + 1].op = "unpatch"
                    /\ installs[i + 1].exports = ns) =>
                       /\ ~installs[i + 1].threw
                       /\ Get(installs[i + 1].after, ns, "default") = original

\* C36: after _patch of a Module-tagged namespace whose default is a
\* function, no property of the wrapper it publishes is that function: a
\* default or inject of the function that is the function itself is the
\* wrapper on the wrapper.
C36_NamespaceWrapperHidesOriginal ==
    \A op \in Installs :
        (/\ op.op = "patch"
         /\ Supported(op.before, op.exports)
         /\ ~IsFunction(op.before, op.exports)
         /\ ~op.threw) =>
            LET original == Get(op.before, op.exports, "default")
                wrapper == op.returned
            IN  /\ Get(op.after, op.exports, "default") = wrapper
                /\ \A i \in 1..Len(op.after[wrapper.id].props) :
                       op.after[wrapper.id].props[i][2] # original
                /\ \A key \in {"default", "inject"} :
                       Get(op.before, original, key) = original =>
                           Get(op.after, wrapper, key) = wrapper

\* C37: _patch of a function m writes to the new wrapper only, also when
\* it throws while it copies the properties or writes the aliases: every
\* object there was before, m among them, is as it was - m's properties
\* have their values, m has no original marker it did not have, a call of
\* m starts the spans it started before, none for a function never
\* patched - and the wrapper, which is what _patch returns when it
\* returns, alone gets a marker, which is m.
C37_PatchLeavesOriginalAlone ==
    \A op \in Installs :
        (op.op = "patch" /\ IsFunction(op.before, op.exports)) =>
            LET m == op.exports
                wrapper == Ref(Len(op.after))
            IN  /\ Len(op.after) = Len(op.before) + 1
                /\ ~op.threw => op.returned = wrapper
                /\ \A id \in 1..Len(op.before) : op.after[id] = op.before[id]
                /\ op.after[m.id].props = op.before[m.id].props
                /\ op.after[m.id].original = op.before[m.id].original
                /\ SpansStarted(op.after, m) = SpansStarted(op.before, m)
                /\ SpansStarted(op.before, m) = 0 =>
                       /\ op.after[m.id].original = UndefinedValue
                       /\ SpansStarted(op.after, m) = 0
                /\ op.after[wrapper.id].original = m
                /\ \A id \in 1..Len(op.before) :
                       op.after[id].original # UndefinedValue =>
                           op.before[id].original = op.after[id].original

\* the inject function of light-my-request was patched: it still has its
\* three properties and no marker, a call of it starts no span, and the
\* wrapper's marker is the inject function
C37_Witness ==
    \E op \in Installs :
        /\ op.op = "patch"
        /\ op.exports = Ref(1)
        /\ op.before = LightMyRequest
        /\ op.after[1] = LightMyRequest[1]
        /\ Len(op.after[1].props) = 3
        /\ op.after[1].original = UndefinedValue
        /\ SpansStarted(op.after, Ref(1)) = 0
        /\ op.after[op.returned.id].original = Ref(1)
        /\ SpansStarted(op.after, op.returned) = 1

====
